---- MODULE Spec2Model ----
(***************************************************************************)
(* TrendRadar (src/main.py): the title ledger, the novelty detector and    *)
(* the keyword matching engine, modelled as a state machine over the day's *)
(* snapshot directory output/<date>/txt.                                   *)
(*                                                                         *)
(* Representation.  A Python str is a TLA+ string.  A Python dict is a     *)
(* function whose DOMAIN is the key set.  A snapshot file is the sequence  *)
(* of its text lines (the text without its "\n" terminators), so that      *)
(* content.split("\n\n") is the split of that sequence at empty lines.     *)
(* The file stem "HH-MM" is the minute number it denotes: the stems are    *)
(* zero padded, so their lexical order is the numeric order.               *)
(***************************************************************************)
EXTENDS Integers, Sequences, FiniteSets, TLC

(***************************************************************************)
(* Bounds of the model.                                                    *)
(***************************************************************************)
\* the minutes of the modelled day: at most this many snapshot files
MaxMinute == 3

(***************************************************************************)
(* Python str and dict primitives used by the code.                        *)
(***************************************************************************)
\* s[i] as a one-character string
CharAt(s, i) == SubSeq(s, i, i)

\* w in s
Contains(s, w) ==
    \/ w = ""
    \/ \E i \in 1..(Len(s) - Len(w) + 1) : SubSeq(s, i, i + Len(w) - 1) = w

\* s.endswith(w)
EndsWith(s, w) ==
    /\ Len(w) <= Len(s)
    /\ SubSeq(s, Len(s) - Len(w) + 1, Len(s)) = w

\* the positions at which w occurs in s
Occurrences(s, w) ==
    {i \in 1..(Len(s) - Len(w) + 1) : SubSeq(s, i, i + Len(w) - 1) = w}

SetMin(S) == CHOOSE x \in S : \A y \in S : x <= y
SetMax(S) == CHOOSE x \in S : \A y \in S : y <= x

\* s.split(sep, 1) when sep occurs in s: <<before the first sep, after it>>
Split1(s, sep) ==
    LET i == SetMin(Occurrences(s, sep))
    IN  <<SubSeq(s, 1, i - 1), SubSeq(s, i + Len(sep), Len(s))>>

\* s.rsplit(sep, 1) when sep occurs in s: <<before the last sep, after it>>
RSplit1(s, sep) ==
    LET i == SetMax(Occurrences(s, sep))
    IN  <<SubSeq(s, 1, i - 1), SubSeq(s, i + Len(sep), Len(s))>>

\* s[:-1]
DropLast(s) == SubSeq(s, 1, Len(s) - 1)

\* the characters str.strip() and the regular expression \s take for blank
IsSpace(c) == c \in {" ", "\n", "\r", "\t"}

RECURSIVE LStrip(_)
LStrip(s) ==
    IF s # "" /\ IsSpace(CharAt(s, 1)) THEN LStrip(SubSeq(s, 2, Len(s))) ELSE s

RECURSIVE RStrip(_)
RStrip(s) ==
    IF s # "" /\ IsSpace(CharAt(s, Len(s))) THEN RStrip(DropLast(s)) ELSE s

\* s.strip()
Strip(s) == RStrip(LStrip(s))

\* re.sub(r"\s+", " ", s) from position i on; prev: s[i-1] was blank
RECURSIVE CollapseFrom(_, _, _)
CollapseFrom(s, i, prev) ==
    IF i > Len(s) THEN ""
    ELSE IF IsSpace(CharAt(s, i))
         THEN (IF prev THEN "" ELSE " ") \o CollapseFrom(s, i + 1, TRUE)
         ELSE CharAt(s, i) \o CollapseFrom(s, i + 1, FALSE)

clean_title(title) == Strip(CollapseFrom(title, 1, FALSE))

UpperAlphabet == "ABCDEFGHIJKLMNOPQRSTUVWXYZ"
LowerAlphabet == "abcdefghijklmnopqrstuvwxyz"

LowerChar(c) ==
    IF Contains(UpperAlphabet, c) /\ c # ""
    THEN CharAt(LowerAlphabet, SetMin(Occurrences(UpperAlphabet, c)))
    ELSE c

\* s.lower(), on the ASCII letters
RECURSIVE lower(_)
lower(s) ==
    IF s = "" THEN "" ELSE LowerChar(CharAt(s, 1)) \o lower(SubSeq(s, 2, Len(s)))

Digits == "0123456789"

\* s.isdigit()
isdigit(s) ==
    /\ s # ""
    /\ \A i \in 1..Len(s) : Contains(Digits, CharAt(s, i))

DigitValue(c) == SetMin(Occurrences(Digits, c)) - 1

\* int(s) of a digit string
RECURSIVE int(_)
int(s) ==
    IF s = "" THEN 0
    ELSE 10 * int(DropLast(s)) + DigitValue(CharAt(s, Len(s)))

\* f"{n}" of a natural number
RECURSIVE str(_)
str(n) ==
    IF n < 10 THEN CharAt(Digits, n + 1)
    ELSE str(n \div 10) \o CharAt(Digits, (n % 10) + 1)

\* d[k] = v on a dict
Put(d, k, v) == [x \in (DOMAIN d) \cup {k} |-> IF x = k THEN v ELSE d[x]]

\* {}
EmptyDict == [x \in {} |-> x]

\* a or b, on strings
OrElse(a, b) == IF a # "" THEN a ELSE b

(***************************************************************************)
(* The configuration and the remote API.                                   *)
(***************************************************************************)
\* CONFIG["PLATFORMS"] in file order; the display name is the id when the
\* platform entry has no "name"
SourceOrder == <<"A", "B">>
Sources == {SourceOrder[i] : i \in 1..Len(SourceOrder)}
PlatformName(id) == IF id = "A" THEN "Alpha" ELSE id

\* the keys of a dict keyed by source id, in the order crawl_websites
\* inserted them (the order of ids_list)
RECURSIVE KeysInOrderFrom(_, _)
KeysInOrderFrom(d, i) ==
    IF i > Len(SourceOrder) THEN <<>>
    ELSE (IF SourceOrder[i] \in DOMAIN d THEN <<SourceOrder[i]>> ELSE <<>>)
         \o KeysInOrderFrom(d, i + 1)

KeysInOrder(d) == KeysInOrderFrom(d, 1)

(***************************************************************************)
(* DataFetcher.crawl_websites.  responses[id] is what fetch_data returned  *)
(* for id: [ok |-> FALSE] when it gave up (None), else the decoded "items" *)
(* of the JSON body.  An item is [has_title, title, url, mobileUrl,        *)
(* hover]; item["title"] raises KeyError when has_title is FALSE.          *)
(***************************************************************************)
NewInfo(index, item) ==
    [ranks |-> <<index>>, url |-> item.url, mobileUrl |-> item.mobileUrl,
     summary |-> item.hover]

RepeatInfo(info, index, item) ==
    [info EXCEPT !.ranks = Append(@, index),
                 !.summary = IF item.hover # "" /\ @ = "" THEN item.hover ELSE @]

\* the loop over data["items"]: [raised, data], data being results[id_value]
\* when the loop ended or raised
RECURSIVE CrawlItems(_, _, _)
CrawlItems(items, index, acc) ==
    IF index > Len(items) THEN [raised |-> FALSE, data |-> acc]
    ELSE LET item == items[index]
         IN  IF ~item.has_title THEN [raised |-> TRUE, data |-> acc]
             ELSE IF item.title \in DOMAIN acc
                  THEN CrawlItems(items, index + 1,
                           Put(acc, item.title,
                               RepeatInfo(acc[item.title], index, item)))
                  ELSE CrawlItems(items, index + 1,
                           Put(acc, item.title, NewInfo(index, item)))

\* results and failed_ids after the try block of one fetched source
Fetched(acc, id_value, got) ==
    [acc EXCEPT !.results = Put(@, id_value, got.data),
                !.failed_ids = IF got.raised THEN Append(@, id_value) ELSE @]

\* the body of the loop over ids_list
CrawlOne(acc, id_value, response) ==
    IF ~response.ok
    THEN [acc EXCEPT !.id_to_name = Put(@, id_value, PlatformName(id_value)),
                     !.failed_ids = Append(@, id_value)]
    ELSE Fetched([acc EXCEPT !.id_to_name =
                                 Put(@, id_value, PlatformName(id_value))],
                 id_value, CrawlItems(response.items, 1, EmptyDict))

\* [results, id_to_name, failed_ids] after the loop over ids_list[i..]
RECURSIVE CrawlFrom(_, _, _, _)
CrawlFrom(ids_list, responses, i, acc) ==
    IF i > Len(ids_list) THEN acc
    ELSE CrawlFrom(ids_list, responses, i + 1,
                   CrawlOne(acc, ids_list[i], responses[ids_list[i]]))

crawl_websites(ids_list, responses) ==
    CrawlFrom(ids_list, responses, 1,
              [results |-> EmptyDict, id_to_name |-> EmptyDict,
               failed_ids |-> <<>>])

(***************************************************************************)
(* save_titles_to_file: the lines of the snapshot file.                    *)
(***************************************************************************)
FailedMarker == "==== Following IDs Failed ===="

\* summary.replace("\n", " ").replace("\r", "")
RECURSIVE CleanSummary(_)
CleanSummary(s) ==
    IF s = "" THEN ""
    ELSE (IF CharAt(s, 1) = "\n" THEN " "
          ELSE IF CharAt(s, 1) = "\r" THEN "" ELSE CharAt(s, 1))
         \o CleanSummary(SubSeq(s, 2, Len(s)))

\* rank = ranks[0] if ranks else 1
FirstRank(info) == IF info.ranks # <<>> THEN info.ranks[1] ELSE 1

TitleLine(rank, cleaned_title, url, mobile_url, summary) ==
    str(rank) \o ". " \o cleaned_title
    \o (IF url # "" THEN " [URL:" \o url \o "]" ELSE "")
    \o (IF mobile_url # "" THEN " [MOBILE:" \o mobile_url \o "]" ELSE "")
    \o (IF summary # "" THEN " [SUMMARY:" \o CleanSummary(summary) \o "]" ELSE "")

\* sorted_titles.sort(key=rank), written out: the titles left, by rising rank.
\* crawl_websites gives the titles of one source distinct first ranks.
RECURSIVE SortedTitleLines(_, _)
SortedTitleLines(title_data, left) ==
    IF left = {} THEN <<>>
    ELSE LET t == CHOOSE t \in left : \A u \in left :
                      FirstRank(title_data[t]) <= FirstRank(title_data[u])
             info == title_data[t]
         IN  <<TitleLine(FirstRank(info), clean_title(t), info.url,
                         info.mobileUrl, info.summary)>>
             \o SortedTitleLines(title_data, left \ {t})

HeaderLine(id_value, id_to_name) ==
    IF id_value \in DOMAIN id_to_name /\ id_to_name[id_value] # ""
       /\ id_to_name[id_value] # id_value
    THEN id_value \o " | " \o id_to_name[id_value]
    ELSE id_value

RECURSIVE SaveBlocks(_, _, _)
SaveBlocks(results, id_to_name, keys) ==
    IF keys = <<>> THEN <<>>
    ELSE <<HeaderLine(Head(keys), id_to_name)>>
         \o SortedTitleLines(results[Head(keys)], DOMAIN results[Head(keys)])
         \o <<"">>
         \o SaveBlocks(results, id_to_name, Tail(keys))

save_titles_to_file(results, id_to_name, failed_ids) ==
    SaveBlocks(results, id_to_name, KeysInOrder(results))
    \o (IF failed_ids # <<>> THEN <<FailedMarker>> \o failed_ids ELSE <<>>)

(***************************************************************************)
(* parse_file_titles.                                                      *)
(***************************************************************************)
\* content.split("\n\n"): the runs of lines between empty lines
RECURSIVE SplitSections(_, _)
SplitSections(lines, current) ==
    IF lines = <<>>
    THEN (IF current = <<>> THEN <<>> ELSE <<current>>)
    ELSE IF Head(lines) = ""
         THEN (IF current = <<>> THEN <<>> ELSE <<current>>)
              \o SplitSections(Tail(lines), <<>>)
         ELSE SplitSections(Tail(lines), Append(current, Head(lines)))

\* rank_str, title_part = title_part.split(". ", 1); rank = int(rank_str)
RankSplit(parts, title_part) ==
    IF isdigit(parts[1])
    THEN [has_rank |-> TRUE, rank |-> int(parts[1]), rest |-> parts[2]]
    ELSE [has_rank |-> FALSE, rank |-> 0, rest |-> title_part]

\* "Extract rank": [has_rank, rank, rest]; has_rank FALSE is rank None
ExtractRank(title_part) ==
    IF Contains(title_part, ". ")
    THEN RankSplit(Split1(title_part, ". "), title_part)
    ELSE [has_rank |-> FALSE, rank |-> 0, rest |-> title_part]

\* title_part, part = title_part.rsplit(marker, 1); value = part[:-1]
TagSplit(parts) ==
    [rest |-> parts[1],
     value |-> IF EndsWith(parts[2], "]") THEN DropLast(parts[2]) ELSE ""]

\* one "Extract" step: [rest, value] for the tag marker, e.g. " [URL:"
ExtractTag(title_part, marker) ==
    IF Contains(title_part, marker)
    THEN TagSplit(RSplit1(title_part, marker))
    ELSE [rest |-> title_part, value |-> ""]

\* the body of the loop over lines[1:], once each part is extracted (in the
\* order MOBILE, URL, SUMMARY): [title, info]
ParsedLine(ranked, mobile, url, summary) ==
    [title |-> clean_title(Strip(summary.rest)),
     info |-> [ranks |-> IF ranked.has_rank THEN <<ranked.rank>> ELSE <<1>>,
               url |-> url.value,
               mobileUrl |-> mobile.value,
               summary |-> summary.value]]

ParseAfterUrl(ranked, mobile, url) ==
    ParsedLine(ranked, mobile, url, ExtractTag(url.rest, " [SUMMARY:"))

ParseAfterMobile(ranked, mobile) ==
    ParseAfterUrl(ranked, mobile, ExtractTag(mobile.rest, " [URL:"))

ParseAfterRank(ranked) ==
    ParseAfterMobile(ranked, ExtractTag(ranked.rest, " [MOBILE:"))

ParseLine(line) == ParseAfterRank(ExtractRank(Strip(line)))

\* titles_by_id[source_id][title] = {...}: a later line of a title replaces
\* the earlier one
PutParsed(acc, parsed) == Put(acc, parsed.title, parsed.info)

\* titles_by_id[source_id] after the lines
RECURSIVE ParseLines(_, _)
ParseLines(lines, acc) ==
    IF lines = <<>> THEN acc
    ELSE IF Strip(Head(lines)) = "" THEN ParseLines(Tail(lines), acc)
         ELSE ParseLines(Tail(lines), PutParsed(acc, ParseLine(Head(lines))))

HeaderParts(parts) == [source_id |-> Strip(parts[1]), name |-> Strip(parts[2])]

\* [source_id, name] of a stripped header line
HeaderOf(header_line) ==
    IF Contains(header_line, " | ")
    THEN HeaderParts(Split1(header_line, " | "))
    ELSE [source_id |-> header_line, name |-> header_line]

ParseHeader(line) == HeaderOf(Strip(line))

SectionSkipped(section) ==
    \/ \E i \in 1..Len(section) : Contains(section[i], FailedMarker)
    \/ Len(section) < 2

\* one section added to (titles_by_id, id_to_name)
ParsedSection(acc, header, titles) ==
    [titles_by_id |-> Put(acc.titles_by_id, header.source_id, titles),
     id_to_name |-> Put(acc.id_to_name, header.source_id, header.name)]

RECURSIVE ParseSections(_, _)
ParseSections(sections, acc) ==
    IF sections = <<>> THEN acc
    ELSE IF SectionSkipped(Head(sections))
         THEN ParseSections(Tail(sections), acc)
         ELSE ParseSections(Tail(sections),
                  ParsedSection(acc, ParseHeader(Head(sections)[1]),
                                ParseLines(Tail(Head(sections)), EmptyDict)))

parse_file_titles(lines) ==
    ParseSections(SplitSections(lines, <<>>),
                  [titles_by_id |-> EmptyDict, id_to_name |-> EmptyDict])

(***************************************************************************)
(* process_source_data: one source block of one snapshot merged into the   *)
(* ledger (all_results, title_info).                                       *)
(***************************************************************************)
\* the title_info entry of a title seen for the first time
NewEntry(data, time_info) ==
    [first_time |-> time_info, last_time |-> time_info, count |-> 1,
     ranks |-> data.ranks, url |-> data.url, mobileUrl |-> data.mobileUrl,
     summary |-> data.summary]

\* merged_ranks = existing_ranks.copy(); then each new rank not yet in it
RECURSIVE MergedRanks(_, _)
MergedRanks(existing_ranks, ranks) ==
    IF ranks = <<>> THEN existing_ranks
    ELSE IF \E i \in 1..Len(existing_ranks) : existing_ranks[i] = Head(ranks)
         THEN MergedRanks(existing_ranks, Tail(ranks))
         ELSE MergedRanks(Append(existing_ranks, Head(ranks)), Tail(ranks))

\* all_results[source_id][title] of a title seen again
MergedData(existing_data, data) ==
    [ranks |-> MergedRanks(existing_data.ranks, data.ranks),
     url |-> OrElse(existing_data.url, data.url),
     mobileUrl |-> OrElse(existing_data.mobileUrl, data.mobileUrl),
     summary |-> OrElse(existing_data.summary, data.summary)]

\* a fill that lets a later non-empty value replace the stored one
FillWithLatest(current, value) == IF value # "" THEN value ELSE current

\* if not entry.get(field): entry[field] = value
FillIfEmpty(current, value) == IF current = "" THEN value ELSE current

\* a count that a title seen again leaves as it is
NextCountStuck(count) == count

\* the count of a title seen again
NextCount(count) == count + 1

\* a merge that restarts first_time at the snapshot being folded
MergedEntryRestarted(entry, existing_data, data, time_info) ==
    [first_time |-> time_info,
     last_time |-> time_info,
     count |-> NextCount(entry.count),
     ranks |-> MergedRanks(existing_data.ranks, data.ranks),
     url |-> FillIfEmpty(entry.url, data.url),
     mobileUrl |-> FillIfEmpty(entry.mobileUrl, data.mobileUrl),
     summary |-> FillIfEmpty(entry.summary, data.summary)]

\* title_info[source_id][title] of a title seen again
MergedEntry(entry, existing_data, data, time_info) ==
    [first_time |-> entry.first_time,
     last_time |-> time_info,
     count |-> NextCount(entry.count),
     ranks |-> MergedRanks(existing_data.ranks, data.ranks),
     url |-> FillIfEmpty(entry.url, data.url),
     mobileUrl |-> FillIfEmpty(entry.mobileUrl, data.mobileUrl),
     summary |-> FillIfEmpty(entry.summary, data.summary)]

\* a call that keeps of the source nothing but the block
SourceReplaced(source_id, title_data, time_info, ar, ti) ==
    [all_results |-> Put(ar, source_id, title_data),
     title_info |->
         Put(ti, source_id,
             [t \in DOMAIN title_data |-> NewEntry(title_data[t], time_info)])]

\* [all_results, title_info] after the call
process_source_data(source_id, title_data, time_info, ar, ti) ==
    IF source_id \notin DOMAIN ar
    THEN [all_results |-> Put(ar, source_id, title_data),
          title_info |->
              Put(ti, source_id,
                  [t \in (IF source_id \in DOMAIN ti
                          THEN DOMAIN ti[source_id] ELSE {})
                         \cup DOMAIN title_data |->
                      IF t \in DOMAIN title_data
                      THEN NewEntry(title_data[t], time_info)
                      ELSE ti[source_id][t]])]
    ELSE [all_results |->
              Put(ar, source_id,
                  [t \in DOMAIN ar[source_id] \cup DOMAIN title_data |->
                      IF t \notin DOMAIN title_data THEN ar[source_id][t]
                      ELSE IF t \notin DOMAIN ar[source_id] THEN title_data[t]
                      ELSE MergedData(ar[source_id][t], title_data[t])]),
          title_info |->
              Put(ti, source_id,
                  [t \in DOMAIN ti[source_id] \cup DOMAIN title_data |->
                      IF t \notin DOMAIN title_data THEN ti[source_id][t]
                      ELSE IF t \notin DOMAIN ar[source_id]
                           THEN NewEntry(title_data[t], time_info)
                           ELSE MergedEntry(ti[source_id][t], ar[source_id][t],
                                            title_data[t], time_info)])]

(***************************************************************************)
(* read_all_today_titles and detect_latest_new_titles.  A file of the      *)
(* directory is [stem, lines]; files is the sorted directory listing.      *)
(* current_platform_ids is [is_none, ids]: None, or the list of ids.       *)
(***************************************************************************)
NoPlatformFilter == [is_none |-> TRUE, ids |-> {}]
PlatformFilter(ids) == [is_none |-> FALSE, ids |-> ids]

\* a filter that lets every source through
FilterNothing(by_id, current_platform_ids) == by_id

\* a dict keyed by source id, restricted to the current platforms
FilterByPlatform(by_id, current_platform_ids) ==
    IF current_platform_ids.is_none THEN by_id
    ELSE [id \in {x \in DOMAIN by_id : x \in current_platform_ids.ids} |->
             by_id[id]]

\* the ledger with (all_results, title_info) as process_source_data left them
Merged(ledger, merged) ==
    [ledger EXCEPT !.all_results = merged.all_results,
                   !.title_info = merged.title_info]

ProcessSource(titles_by_id, source_id, time_info, ledger) ==
    Merged(ledger,
           process_source_data(source_id, titles_by_id[source_id], time_info,
                               ledger.all_results, ledger.title_info))

\* the loop "for source_id, title_data in titles_by_id.items()"; the calls
\* for different sources touch different entries, so their order is immaterial
RECURSIVE ProcessSources(_, _, _, _)
ProcessSources(titles_by_id, left, time_info, ledger) ==
    IF left = {} THEN ledger
    ELSE ProcessSources(titles_by_id, left \ {CHOOSE x \in left : TRUE},
             time_info,
             ProcessSource(titles_by_id, CHOOSE x \in left : TRUE, time_info,
                           ledger))

\* final_id_to_name.update(file_id_to_name)
DictUpdate(d, e) ==
    [x \in DOMAIN d \cup DOMAIN e |-> IF x \in DOMAIN e THEN e[x] ELSE d[x]]

\* one file of the loop "for file_path in files", parsed and filtered
ReadFile(titles_by_id, file_id_to_name, time_info, ledger) ==
    ProcessSources(titles_by_id, DOMAIN titles_by_id, time_info,
        [ledger EXCEPT !.id_to_name = DictUpdate(@, file_id_to_name)])

ReadParsed(parsed, current_platform_ids, time_info, ledger) ==
    ReadFile(FilterByPlatform(parsed.titles_by_id, current_platform_ids),
             FilterByPlatform(parsed.id_to_name, current_platform_ids),
             time_info, ledger)

\* the loop "for file_path in files", from file i on
RECURSIVE ReadFilesFrom(_, _, _, _)
ReadFilesFrom(files, i, current_platform_ids, ledger) ==
    IF i > Len(files) THEN ledger
    ELSE ReadFilesFrom(files, i + 1, current_platform_ids,
             ReadParsed(parse_file_titles(files[i].lines),
                        current_platform_ids, files[i].stem, ledger))

EmptyLedger ==
    [all_results |-> EmptyDict, id_to_name |-> EmptyDict,
     title_info |-> EmptyDict]

read_all_today_titles(files, current_platform_ids) ==
    ReadFilesFrom(files, 1, current_platform_ids, EmptyLedger)

\* the titles of one file, parsed and filtered by platform
FileTitles(file, current_platform_ids) ==
    FilterByPlatform(parse_file_titles(file.lines).titles_by_id,
                     current_platform_ids)

\* historical_titles, given the parsed and filtered files[:-1]: per source,
\* the set of its titles
HistoricalTitles(historical_data) ==
    [id \in UNION {DOMAIN historical_data[i] : i \in DOMAIN historical_data} |->
        UNION {DOMAIN historical_data[i][id] :
               i \in {j \in DOMAIN historical_data :
                         id \in DOMAIN historical_data[j]}}]

\* source_new_titles of one source of the latest file
SourceNewTitles(latest_source_titles, historical_set) ==
    [t \in {x \in DOMAIN latest_source_titles : x \notin historical_set} |->
        latest_source_titles[t]]

\* a history that is not kept per source
HistoricalSetOfAll(historical_titles, id) ==
    UNION {historical_titles[x] : x \in DOMAIN historical_titles}

\* historical_titles.get(source_id, set())
HistoricalSet(historical_titles, id) ==
    IF id \in DOMAIN historical_titles THEN historical_titles[id] ELSE {}

\* "Find new titles"
NewTitles(latest_titles, historical_titles) ==
    [id \in {x \in DOMAIN latest_titles :
                \E t \in DOMAIN latest_titles[x] :
                    t \notin HistoricalSet(historical_titles, x)} |->
        SourceNewTitles(latest_titles[id], HistoricalSet(historical_titles, id))]

detect_latest_new_titles(files, current_platform_ids) ==
    IF Len(files) < 2 THEN EmptyDict
    ELSE NewTitles(
             FileTitles(files[Len(files)], current_platform_ids),
             HistoricalTitles([i \in 1..(Len(files) - 1) |->
                                  FileTitles(files[i], current_platform_ids)]))

(***************************************************************************)
(* load_frequency_words, matches_word_groups, calculate_news_weight and    *)
(* count_word_frequency.  Here a dict that the code iterates is the        *)
(* sequence of its items [key, value] in insertion order, keys distinct.   *)
(* A time is the string "HH-MM"; None and "" are both "".  A weight is the *)
(* exact fraction [num, den]; the configured weights are in tenths.        *)
(***************************************************************************)
\* k in d
HasKey(d, k) == \E i \in 1..Len(d) : d[i].key = k

\* d[k]
ValueAt(d, k) == d[CHOOSE i \in 1..Len(d) : d[i].key = k].value

\* s.startswith(p)
StartsWith(s, p) == Len(p) <= Len(s) /\ SubSeq(s, 1, Len(p)) = p

\* s[1:]
DropFirst(s) == SubSeq(s, 2, Len(s))

\* sep.join(words)
RECURSIVE Join(_, _)
Join(words, sep) ==
    IF words = <<>> THEN ""
    ELSE IF Len(words) = 1 THEN words[1]
         ELSE words[1] \o sep \o Join(Tail(words), sep)

\* one word of a group filed under filter, required or normal
ClassifyWord(acc, word) ==
    IF StartsWith(word, "!")
    THEN [acc EXCEPT !.filter = Append(@, DropFirst(word))]
    ELSE IF StartsWith(word, "+")
         THEN [acc EXCEPT !.required = Append(@, DropFirst(word))]
         ELSE [acc EXCEPT !.normal = Append(@, word)]

\* the words of one group of lines, classified
RECURSIVE GroupWords(_, _)
GroupWords(lines, acc) ==
    IF lines = <<>> THEN acc
    ELSE IF Strip(Head(lines)) = "" THEN GroupWords(Tail(lines), acc)
         ELSE GroupWords(Tail(lines), ClassifyWord(acc, Strip(Head(lines))))

GroupKey(words) ==
    IF words.normal # <<>> THEN Join(words.normal, " ")
    ELSE Join(words.required, " ")

\* (processed_groups, filter_words) after one group
LoadedGroup(acc, words) ==
    [word_groups |->
         IF words.required # <<>> \/ words.normal # <<>>
         THEN Append(acc.word_groups,
                     [required |-> words.required, normal |-> words.normal,
                      group_key |-> GroupKey(words)])
         ELSE acc.word_groups,
     filter_words |-> acc.filter_words \o words.filter]

RECURSIVE LoadGroups(_, _)
LoadGroups(groups, acc) ==
    IF groups = <<>> THEN acc
    ELSE LoadGroups(Tail(groups),
             LoadedGroup(acc, GroupWords(Head(groups),
                 [required |-> <<>>, normal |-> <<>>, filter |-> <<>>])))

\* load_frequency_words, on the lines of the frequency words file
load_frequency_words(lines) ==
    LoadGroups(SplitSections(lines, <<>>),
               [word_groups |-> <<>>, filter_words |-> <<>>])

\* any(word.lower() in title_lower for word in words)
AnyPresent(words, title_lower) ==
    \E i \in 1..Len(words) : Contains(title_lower, lower(words[i]))

\* all(word.lower() in title_lower for word in words)
AllPresent(words, title_lower) ==
    \A i \in 1..Len(words) : Contains(title_lower, lower(words[i]))

\* the required words check and the normal words check of one group
GroupMatches(group, title_lower) ==
    /\ group.required # <<>> => AllPresent(group.required, title_lower)
    /\ group.normal # <<>> => AnyPresent(group.normal, title_lower)

\* a match that does not look at the filter words
MatchesUnfiltered(title, word_groups, filter_words) ==
    IF word_groups = <<>> THEN TRUE
    ELSE \E i \in 1..Len(word_groups) :
             GroupMatches(word_groups[i], lower(title))

matches_word_groups(title, word_groups, filter_words) ==
    IF word_groups = <<>> THEN TRUE
    ELSE IF AnyPresent(filter_words, lower(title)) THEN FALSE
         ELSE \E i \in 1..Len(word_groups) :
                  GroupMatches(word_groups[i], lower(title))

\* sum(11 - min(rank, 10) for rank in ranks)
RECURSIVE RankScores(_)
RankScores(ranks) ==
    IF ranks = <<>> THEN 0
    ELSE 11 - (IF Head(ranks) < 10 THEN Head(ranks) ELSE 10) + RankScores(Tail(ranks))

\* sum(1 for rank in ranks if rank <= rank_threshold)
HighRankCount(ranks, rank_threshold) ==
    Cardinality({i \in 1..Len(ranks) : ranks[i] <= rank_threshold})

\* a frequency weight without the cap
FrequencyUncapped(count) == count * 10

\* min(count, 10) * 10
FrequencyWeight(count) == (IF count < 10 THEN count ELSE 10) * 10

\* total_weight, in tenths, as the fraction num / den
calculate_news_weight(title_data, rank_threshold, weight_config) ==
    IF title_data.ranks = <<>> THEN [num |-> 0, den |-> 1]
    ELSE [num |-> RankScores(title_data.ranks) * weight_config.RANK_WEIGHT
                  + FrequencyWeight(title_data.count) * weight_config.FREQUENCY_WEIGHT
                    * Len(title_data.ranks)
                  + HighRankCount(title_data.ranks, rank_threshold) * 100
                    * weight_config.HOTNESS_WEIGHT,
          den |-> Len(title_data.ranks)]

\* the characters of the model's strings, in code point order
CodePoints ==
    " !+-.0123456789:ABCDEFGHIJKLMNOPQRSTUVWXYZ[]abcdefghijklmnopqrstuvwxyz|~"

Ord(c) == SetMin(Occurrences(CodePoints, c))

\* a < b, on strings
RECURSIVE StrLess(_, _)
StrLess(a, b) ==
    IF b = "" THEN FALSE
    ELSE IF a = "" THEN TRUE
    ELSE IF CharAt(a, 1) = CharAt(b, 1) THEN StrLess(DropFirst(a), DropFirst(b))
    ELSE Ord(CharAt(a, 1)) < Ord(CharAt(b, 1))

\* the two characters clean_time rewrites are written h and m in this module
HourSign == "h"
MinuteSign == "m"

\* t.replace(HourSign, ":").replace(MinuteSign, "")
RECURSIVE clean_time(_)
clean_time(t) ==
    IF t = "" THEN ""
    ELSE (IF CharAt(t, 1) = HourSign THEN ":"
          ELSE IF CharAt(t, 1) = MinuteSign THEN ""
          ELSE CharAt(t, 1)) \o clean_time(DropFirst(t))

TimeRange(first_time, last_time) ==
    IF first_time = last_time \/ last_time = "" THEN first_time
    ELSE "[" \o first_time \o " ~ " \o last_time \o "]"

format_time_display(first_time, last_time) ==
    IF first_time = "" THEN ""
    ELSE TimeRange(clean_time(first_time), clean_time(last_time))

\* the virtual group of an empty configuration
AllNewsGroup == [required |-> <<>>, normal |-> <<>>, group_key |-> "All News"]

\* word_groups and filter_words after "if not word_groups"
GroupsOrAllNews(word_groups) ==
    IF word_groups = <<>> THEN <<AllNewsGroup>> ELSE word_groups

\* filter words that an empty configuration does not clear
FiltersKept(word_groups, filter_words) == filter_words

\* filter_words after "if not word_groups"
FiltersOrNone(word_groups, filter_words) ==
    IF word_groups = <<>> THEN <<>> ELSE filter_words

\* len(word_groups) == 1 and word_groups[0]["group_key"] == "All News"
IsAllNews(word_groups) ==
    Len(word_groups) = 1 /\ word_groups[1].group_key = "All News"

\* latest_time of the current branch; None is ""
LastTimes(title_info) ==
    UNION {{title_info[i].value[j].value.last_time :
               j \in 1..Len(title_info[i].value)} : i \in 1..Len(title_info)} \ {""}

LatestTime(title_info) ==
    IF LastTimes(title_info) = {} THEN ""
    ELSE CHOOSE m \in LastTimes(title_info) :
             \A x \in LastTimes(title_info) : ~StrLess(m, x)

\* filtered_titles of one source of the current branch
RECURSIVE CurrentTitles(_, _, _)
CurrentTitles(source_titles, info_titles, latest_time) ==
    IF source_titles = <<>> THEN <<>>
    ELSE (IF /\ HasKey(info_titles, Head(source_titles).key)
             /\ ValueAt(info_titles, Head(source_titles).key).last_time = latest_time
          THEN <<Head(source_titles)>> ELSE <<>>)
         \o CurrentTitles(Tail(source_titles), info_titles, latest_time)

KeptSource(source_id, filtered_titles) ==
    IF filtered_titles = <<>> THEN <<>>
    ELSE <<[key |-> source_id, value |-> filtered_titles]>>

RECURSIVE CurrentResults(_, _, _)
CurrentResults(results, title_info, latest_time) ==
    IF results = <<>> THEN <<>>
    ELSE (IF HasKey(title_info, Head(results).key)
          THEN KeptSource(Head(results).key,
                   CurrentTitles(Head(results).value,
                                 ValueAt(title_info, Head(results).key),
                                 latest_time))
          ELSE <<>>)
         \o CurrentResults(Tail(results), title_info, latest_time)

CurrentOrAll(results, title_info, latest_time) ==
    IF latest_time = "" THEN results
    ELSE CurrentResults(results, title_info, latest_time)

\* results_to_process
ResultsToProcess(results, title_info, new_titles, mode, is_first_today) ==
    CASE mode = "incremental" -> IF is_first_today THEN results ELSE new_titles
      [] mode = "current" ->
             IF title_info = <<>> THEN results
             ELSE CurrentOrAll(results, title_info, LatestTime(title_info))
      [] OTHER -> results

\* a flag that only the daily mode leaves to the new titles
AllNewsAreNewUnlessDaily(mode) == mode # "daily"

\* all_news_are_new
AllNewsAreNew(mode) == mode = "incremental"

\* word_stats[group_key] = {"count": 0, "titles": {}} for each group: the
\* keys in the order of their first group
RECURSIVE EmptyStats(_, _)
EmptyStats(word_groups, acc) ==
    IF word_groups = <<>> THEN acc
    ELSE EmptyStats(Tail(word_groups),
             IF HasKey(acc, Head(word_groups).group_key) THEN acc
             ELSE Append(acc, [key |-> Head(word_groups).group_key,
                               value |-> [count |-> 0, titles |-> <<>>]]))

\* a loop over the groups that goes on after a match: the last match wins
MatchedGroupLast(word_groups, title_lower) ==
    IF IsAllNews(word_groups) THEN 1
    ELSE IF \E i \in 1..Len(word_groups) : GroupMatches(word_groups[i], title_lower)
         THEN SetMax({i \in 1..Len(word_groups) :
                         GroupMatches(word_groups[i], title_lower)})
         ELSE 0

\* the index of the group the title is counted in, 0 when in none
MatchedGroup(word_groups, title_lower) ==
    IF IsAllNews(word_groups) THEN 1
    ELSE IF \E i \in 1..Len(word_groups) : GroupMatches(word_groups[i], title_lower)
         THEN SetMin({i \in 1..Len(word_groups) :
                         GroupMatches(word_groups[i], title_lower)})
         ELSE 0

\* title_info and source_id in title_info and title in title_info[source_id]
Known(title_info, source_id, title) ==
    /\ HasKey(title_info, source_id)
    /\ HasKey(ValueAt(title_info, source_id), title)

\* a flag that looks for the title under every source of new_titles
IsNewAnywhere(new_titles, all_news_are_new, source_id, title) ==
    \/ all_news_are_new
    \/ \E i \in 1..Len(new_titles) : HasKey(new_titles[i].value, title)

\* is_new
IsNew(new_titles, all_news_are_new, source_id, title) ==
    \/ all_news_are_new
    \/ /\ HasKey(new_titles, source_id)
       /\ HasKey(ValueAt(new_titles, source_id), title)

\* if not ranks: ranks = [99]
RanksOr99(ranks) == IF ranks = <<>> THEN <<99>> ELSE ranks

\* an entry that tells of the latest sighting only: seen once, at last_time,
\* at the last of the ranks
SightingEntry(ctx, source_id, title, title_data, info) ==
    [title |-> title,
     source_name |-> IF HasKey(ctx.id_to_name, source_id)
                     THEN ValueAt(ctx.id_to_name, source_id) ELSE source_id,
     first_time |-> info.last_time,
     last_time |-> info.last_time,
     time_display |-> format_time_display(info.last_time, info.last_time),
     count |-> 1,
     ranks |-> RanksOr99(IF info.ranks # <<>> THEN <<info.ranks[Len(info.ranks)]>>
                         ELSE title_data.ranks),
     rank_threshold |-> ctx.rank_threshold,
     url |-> info.url,
     mobileUrl |-> info.mobileUrl,
     is_new |-> IsNew(ctx.new_titles, ctx.all_news_are_new, source_id, title)]

\* the entry of a title that title_info knows
KnownEntry(ctx, source_id, title, title_data, info) ==
    [title |-> title,
     source_name |-> IF HasKey(ctx.id_to_name, source_id)
                     THEN ValueAt(ctx.id_to_name, source_id) ELSE source_id,
     first_time |-> info.first_time,
     last_time |-> info.last_time,
     time_display |-> format_time_display(info.first_time, info.last_time),
     count |-> info.count,
     ranks |-> RanksOr99(IF info.ranks # <<>> THEN info.ranks ELSE title_data.ranks),
     rank_threshold |-> ctx.rank_threshold,
     url |-> info.url,
     mobileUrl |-> info.mobileUrl,
     is_new |-> IsNew(ctx.new_titles, ctx.all_news_are_new, source_id, title)]

\* the entry of a title that title_info does not know
UnknownEntry(ctx, source_id, title, title_data) ==
    [title |-> title,
     source_name |-> IF HasKey(ctx.id_to_name, source_id)
                     THEN ValueAt(ctx.id_to_name, source_id) ELSE source_id,
     first_time |-> "",
     last_time |-> "",
     time_display |-> format_time_display("", ""),
     count |-> 1,
     ranks |-> RanksOr99(title_data.ranks),
     rank_threshold |-> ctx.rank_threshold,
     url |-> title_data.url,
     mobileUrl |-> title_data.mobileUrl,
     is_new |-> IsNew(ctx.new_titles, ctx.all_news_are_new, source_id, title)]

TitleEntry(ctx, source_id, title, title_data) ==
    IF Known(ctx.title_info, source_id, title)
    THEN KnownEntry(ctx, source_id, title, title_data,
                    ValueAt(ValueAt(ctx.title_info, source_id), title))
    ELSE UnknownEntry(ctx, source_id, title, title_data)

\* word_stats[group_key]["count"] += 1 and the entry appended to its titles,
\* which the code keeps per source and later concatenates source by source:
\* the sources are processed one after the other, so that is append order
AddToStat(word_stats, group_key, entry) ==
    [i \in 1..Len(word_stats) |->
        IF word_stats[i].key = group_key
        THEN [key |-> group_key,
              value |-> [count |-> word_stats[i].value.count + 1,
                         titles |-> Append(word_stats[i].value.titles, entry)]]
        ELSE word_stats[i]]

AddToGroup(ctx, word_stats, group, source_id, item) ==
    IF group = 0 THEN word_stats
    ELSE AddToStat(word_stats, ctx.word_groups[group].group_key,
                   TitleEntry(ctx, source_id, item.key, item.value))

\* one title of the loop
CountTitle(ctx, word_stats, source_id, item) ==
    IF ~matches_word_groups(item.key, ctx.word_groups, ctx.filter_words)
    THEN word_stats
    ELSE AddToGroup(ctx, word_stats,
                    MatchedGroup(ctx.word_groups, lower(item.key)),
                    source_id, item)

RECURSIVE CountTitles(_, _, _, _)
CountTitles(ctx, word_stats, source_id, titles_data) ==
    IF titles_data = <<>> THEN word_stats
    ELSE CountTitles(ctx, CountTitle(ctx, word_stats, source_id, Head(titles_data)),
                     source_id, Tail(titles_data))

RECURSIVE CountSources(_, _, _)
CountSources(ctx, word_stats, results_to_process) ==
    IF results_to_process = <<>> THEN word_stats
    ELSE CountSources(ctx,
             CountTitles(ctx, word_stats, Head(results_to_process).key,
                         Head(results_to_process).value),
             Tail(results_to_process))

\* total_titles
RECURSIVE TotalTitles(_)
TotalTitles(results_to_process) ==
    IF results_to_process = <<>> THEN 0
    ELSE Len(Head(results_to_process).value) + TotalTitles(Tail(results_to_process))

\* min(x["ranks"]) if x["ranks"] else 999
MinRank(x) ==
    IF x.ranks = <<>> THEN 999 ELSE SetMin({x.ranks[i] : i \in 1..Len(x.ranks)})

\* v < w, on weights
WeightLess(v, w) == v.num * w.den < w.num * v.den

\* a key without its last part: (-weight, min rank)
KeyLessNoCount(a, b, va, vb) ==
    IF WeightLess(vb, va) THEN TRUE
    ELSE IF WeightLess(va, vb) THEN FALSE
    ELSE MinRank(a) < MinRank(b)

\* key(a) < key(b) for weights va, vb: (-weight, min rank, -count)
KeyLessBy(a, b, va, vb) ==
    IF WeightLess(vb, va) THEN TRUE
    ELSE IF WeightLess(va, vb) THEN FALSE
    ELSE IF MinRank(a) # MinRank(b) THEN MinRank(a) < MinRank(b)
    ELSE a.count > b.count

KeyLess(a, b, rank_threshold, weight_config) ==
    KeyLessBy(a, b, calculate_news_weight(a, rank_threshold, weight_config),
              calculate_news_weight(b, rank_threshold, weight_config))

\* x put into a sorted list, after the elements its key is not less than
InsertTitle(sorted, x, rank_threshold, weight_config) ==
    IF \E i \in 1..Len(sorted) : KeyLess(x, sorted[i], rank_threshold, weight_config)
    THEN LET at == SetMin({i \in 1..Len(sorted) :
                              KeyLess(x, sorted[i], rank_threshold, weight_config)})
         IN  SubSeq(sorted, 1, at - 1) \o <<x>> \o SubSeq(sorted, at, Len(sorted))
    ELSE Append(sorted, x)

\* sorted(all_titles, key=...): the sort is stable
RECURSIVE SortedTitles(_, _, _, _)
SortedTitles(all_titles, sorted, rank_threshold, weight_config) ==
    IF all_titles = <<>> THEN sorted
    ELSE SortedTitles(Tail(all_titles),
             InsertTitle(sorted, Head(all_titles), rank_threshold, weight_config),
             rank_threshold, weight_config)

\* n / d rounded to the nearest integer, a half to the even one
RoundHalfEven(n, d) ==
    IF 2 * (n % d) < d THEN n \div d
    ELSE IF 2 * (n % d) > d THEN (n \div d) + 1
    ELSE IF (n \div d) % 2 = 0 THEN n \div d
    ELSE (n \div d) + 1

\* round(count / total_titles * 100, 2), in hundredths
Percentage(count, total_titles) ==
    IF total_titles > 0 THEN RoundHalfEven(count * 10000, total_titles) ELSE 0

\* one element of stats
Stat(group_key, data, total_titles, rank_threshold, weight_config) ==
    [word |-> group_key,
     count |-> data.count,
     titles |-> SortedTitles(data.titles, <<>>, rank_threshold, weight_config),
     percentage |-> Percentage(data.count, total_titles)]

\* a stat put into a list sorted by descending count, after its equals
InsertStat(sorted, x) ==
    IF \E i \in 1..Len(sorted) : x.count > sorted[i].count
    THEN LET at == SetMin({i \in 1..Len(sorted) : x.count > sorted[i].count})
         IN  SubSeq(sorted, 1, at - 1) \o <<x>> \o SubSeq(sorted, at, Len(sorted))
    ELSE Append(sorted, x)

\* stats, built from word_stats and sorted by count, reverse=True
RECURSIVE SortedStats(_, _, _, _, _)
SortedStats(word_stats, sorted, total_titles, rank_threshold, weight_config) ==
    IF word_stats = <<>> THEN sorted
    ELSE SortedStats(Tail(word_stats),
             InsertStat(sorted,
                 Stat(Head(word_stats).key, Head(word_stats).value,
                      total_titles, rank_threshold, weight_config)),
             total_titles, rank_threshold, weight_config)

\* what the loop and the sort read besides the titles
Context(word_groups, filter_words, id_to_name, title_info, rank_threshold, new_titles, mode) ==
    [word_groups |-> GroupsOrAllNews(word_groups),
     filter_words |-> FiltersOrNone(word_groups, filter_words),
     id_to_name |-> id_to_name,
     title_info |-> title_info,
     rank_threshold |-> rank_threshold,
     new_titles |-> new_titles,
     all_news_are_new |-> AllNewsAreNew(mode)]

\* word_stats after the loop
WordStats(ctx, results_to_process) ==
    CountSources(ctx, EmptyStats(ctx.word_groups, <<>>), results_to_process)

\* (stats, total_titles) for the titles to process
CountedStats(ctx, results_to_process, weight_config) ==
    [stats |-> SortedStats(WordStats(ctx, results_to_process), <<>>,
                           TotalTitles(results_to_process),
                           ctx.rank_threshold, weight_config),
     total_titles |-> TotalTitles(results_to_process)]

\* count_word_frequency; is_first_today is what is_first_crawl_today()
\* returns and weight_config is CONFIG["WEIGHT_CONFIG"]
count_word_frequency(results, word_groups, filter_words, id_to_name, title_info, rank_threshold, new_titles, mode, is_first_today, weight_config) ==
    CountedStats(Context(word_groups, filter_words, id_to_name, title_info,
                         rank_threshold, new_titles, mode),
                 ResultsToProcess(results, title_info, new_titles, mode,
                                  is_first_today),
                 weight_config)

(***************************************************************************)
(* prepare_report_data.  word_groups and filter_words are what its own     *)
(* call of load_frequency_words returns; rank_threshold is                 *)
(* CONFIG["RANK_THRESHOLD"].                                               *)
(***************************************************************************)
\* a section that lists every new title, matching or not
UnfilteredTitles(titles_data, word_groups, filter_words) == titles_data

\* filtered_titles of one source: the new titles that match the words
RECURSIVE MatchingTitles(_, _, _)
MatchingTitles(titles_data, word_groups, filter_words) ==
    IF titles_data = <<>> THEN <<>>
    ELSE (IF matches_word_groups(Head(titles_data).key, word_groups, filter_words)
          THEN <<Head(titles_data)>> ELSE <<>>)
         \o MatchingTitles(Tail(titles_data), word_groups, filter_words)

\* filtered_new_titles
RECURSIVE FilteredNewTitles(_, _, _)
FilteredNewTitles(new_titles, word_groups, filter_words) ==
    IF new_titles = <<>> THEN <<>>
    ELSE KeptSource(Head(new_titles).key,
                    MatchingTitles(Head(new_titles).value, word_groups, filter_words))
         \o FilteredNewTitles(Tail(new_titles), word_groups, filter_words)

\* processed_title of a new title
NewTitle(source_name, item, rank_threshold) ==
    [title |-> item.key,
     source_name |-> source_name,
     time_display |-> "",
     count |-> 1,
     ranks |-> item.value.ranks,
     rank_threshold |-> rank_threshold,
     url |-> item.value.url,
     mobile_url |-> item.value.mobileUrl,
     is_new |-> TRUE]

\* one element of processed_new_titles
NewSource(source_id, source_name, titles_data, rank_threshold) ==
    [source_id |-> source_id,
     source_name |-> source_name,
     titles |-> [i \in 1..Len(titles_data) |->
                    NewTitle(source_name, titles_data[i], rank_threshold)]]

\* processed_new_titles, given filtered_new_titles: its sources hold a title
ProcessedNewTitles(filtered_new_titles, id_to_name, rank_threshold) ==
    [i \in 1..Len(filtered_new_titles) |->
        NewSource(filtered_new_titles[i].key,
                  IF HasKey(id_to_name, filtered_new_titles[i].key)
                  THEN ValueAt(id_to_name, filtered_new_titles[i].key)
                  ELSE filtered_new_titles[i].key,
                  filtered_new_titles[i].value, rank_threshold)]

\* the new titles section: hidden in incremental mode, empty without
\* new_titles or id_to_name
NewSection(new_titles, id_to_name, mode, word_groups, filter_words, rank_threshold) ==
    IF mode = "incremental" \/ new_titles = <<>> \/ id_to_name = <<>> THEN <<>>
    ELSE ProcessedNewTitles(FilteredNewTitles(new_titles, word_groups, filter_words),
                            id_to_name, rank_threshold)

\* processed_title of a title of a stat
StatTitle(title_data) ==
    [title |-> title_data.title,
     source_name |-> title_data.source_name,
     time_display |-> title_data.time_display,
     count |-> title_data.count,
     ranks |-> title_data.ranks,
     rank_threshold |-> title_data.rank_threshold,
     url |-> title_data.url,
     mobile_url |-> title_data.mobileUrl,
     is_new |-> title_data.is_new]

\* processed_stats: the stats that count a title
RECURSIVE ProcessedStats(_)
ProcessedStats(stats_list) ==
    IF stats_list = <<>> THEN <<>>
    ELSE (IF Head(stats_list).count <= 0 THEN <<>>
          ELSE <<[word |-> Head(stats_list).word,
                  count |-> Head(stats_list).count,
                  percentage |-> Head(stats_list).percentage,
                  titles |-> [i \in 1..Len(Head(stats_list).titles) |->
                                 StatTitle(Head(stats_list).titles[i])]]>>)
         \o ProcessedStats(Tail(stats_list))

RECURSIVE TotalNewCount(_)
TotalNewCount(processed_new_titles) ==
    IF processed_new_titles = <<>> THEN 0
    ELSE Len(Head(processed_new_titles).titles)
         + TotalNewCount(Tail(processed_new_titles))

ReportData(processed_stats, processed_new_titles, failed_ids) ==
    [stats |-> processed_stats,
     new_titles |-> processed_new_titles,
     failed_ids |-> failed_ids,
     total_new_count |-> TotalNewCount(processed_new_titles)]

prepare_report_data(stats_list, failed_ids, new_titles, id_to_name, mode, word_groups, filter_words, rank_threshold) ==
    ReportData(ProcessedStats(stats_list),
               NewSection(new_titles, id_to_name, mode, word_groups, filter_words,
                          rank_threshold),
               failed_ids)

(***************************************************************************)
(* The inputs of the model: what the remote API answers.  A feed bounds    *)
(* the answers of one modelled day.                                        *)
(***************************************************************************)
Item(title, url, mobileUrl, hover) ==
    [has_title |-> TRUE, title |-> title, url |-> url,
     mobileUrl |-> mobileUrl, hover |-> hover]

Plain(title) == Item(title, "", "", "")

Feeds == {"platforms", "ranks", "fields", "modes"}

\* the "items" a source may answer with
Answers(f) ==
    CASE f = "platforms" -> {<<Plain("X")>>}
      [] f = "ranks" -> {<<Plain("X")>>, <<Plain("Y"), Plain("X")>>,
                         <<Plain("Y"), Plain("Z"), Plain("X")>>,
                         <<Item("X", "u1", "", ""), Item("X ", "u2", "", "")>>,
                         <<Plain("X"), Item("X", "", "", "s1")>>}
      [] f = "fields" -> {<<Plain("X")>>, <<Item("X", "u1", "", "")>>,
                          <<Item("X", "u2", "m1", "")>>, <<Item("X", "", "m2", "")>>,
                          <<Item("X", "", "", "s1")>>, <<Item("X", "", "", "s2")>>,
                          <<Item("X", "u1", "", "s1")>>}
      [] f = "modes" -> {<<Plain("X")>>, <<Plain("Y"), Plain("X")>>,
                         <<Plain("Y")>>, <<Plain("Z")>>}

\* the platform lists the configuration may hold
Configs(f) ==
    IF f = "platforms" THEN {{"A"}, {"B"}, {"A", "B"}} ELSE {{"A"}}

\* the values CONFIG["REPORT_MODE"] may hold
ReportModes(f) ==
    IF f = "modes" THEN {"daily", "current", "incremental"} ELSE {"daily"}

\* the lines of the frequency words file
FrequencyWords(f) ==
    IF f = "modes" THEN <<"x", "", "y">> ELSE <<>>

\* CONFIG["RANK_THRESHOLD"] and CONFIG["WEIGHT_CONFIG"], in tenths
DayConfig ==
    [RANK_THRESHOLD |-> 2,
     WEIGHT_CONFIG |-> [RANK_WEIGHT |-> 6, FREQUENCY_WEIGHT |-> 3,
                        HOTNESS_WEIGHT |-> 1]]

\* what fetch_data returns for the ids of ids_list
Responses(f, ids) ==
    [ids -> {[ok |-> FALSE, items |-> <<>>]}
            \cup {[ok |-> TRUE, items |-> a] : a \in Answers(f)}]

(***************************************************************************)
(* The inputs of one call of process_source_data.                          *)
(***************************************************************************)
MaxCalls == 2

Observation(ranks) == [ranks |-> ranks, url |-> "", mobileUrl |-> "", summary |-> ""]

\* the title_data a caller may pass for one source
Blocks ==
    {("X" :> Observation(r)) : r \in {<<1>>, <<2>>, <<2, 2>>, <<1, 2>>, <<2, 1, 2>>}}
    \cup {("Y" :> Observation(<<1>>))}

(***************************************************************************)
(* The inputs of one call of count_word_frequency.                         *)
(***************************************************************************)
\* the frequency words files
FrequencyFiles ==
    {<<>>,
     <<"!ai">>,
     <<"ai", "", "+chip", "war", "AI", "", "!AD">>,
     <<"chip", "!ad", "", "+AI", "+Chip">>}

MatchTitles == {"AI chip", "chip war", "ad AI chip", "rain"}

\* the titles of one source, in dict order
TitleLists ==
    {<<>>} \cup {<<t>> : t \in MatchTitles}
    \cup (UNION {{<<t, u>> : u \in MatchTitles \ {"AI chip", t}} : t \in MatchTitles})

\* the ranks the titles of results come with: the position of the title; or
\* none for the first title of a source and a rank past the tenth, or past
\* the hundredth, for the others
RankKinds == {"position", "missing", "far"}

RanksAt(i, rk) ==
    CASE rk = "position" -> <<i>>
      [] rk = "missing" -> IF i = 1 THEN <<>> ELSE <<12>>
      [] rk = "far" -> IF i = 1 THEN <<>> ELSE <<150>>

\* results[source_id]
TitleItems(titles, rk) ==
    [i \in 1..Len(titles) |->
        [key |-> titles[i],
         value |-> [ranks |-> RanksAt(i, rk), url |-> "u", mobileUrl |-> ""]]]

SourceItem(source_id, items) ==
    IF items = <<>> THEN <<>> ELSE <<[key |-> source_id, value |-> items]>>

ResultsOf(titles_a, titles_b, rk) ==
    SourceItem("A", TitleItems(titles_a, rk)) \o SourceItem("B", TitleItems(titles_b, rk))

\* a ledger entry for each title of results, seen in two snapshots at rank 3
\* and at its rank in results; with "stale", the first title of each source
\* was seen in the earlier snapshot only; with "recount", the entry holds
\* the ranks of results only and the titles of source B were seen in three
InfoItems(items, kind, source_id) ==
    [i \in 1..Len(items) |->
        [key |-> items[i].key,
         value |-> [first_time |-> "09-00",
                    last_time |-> IF kind = "stale" /\ i = 1 THEN "09-00" ELSE "09-05",
                    count |-> IF kind = "stale" /\ i = 1 THEN 1
                              ELSE IF kind = "recount" /\ source_id = "B" THEN 3
                              ELSE 2,
                    ranks |-> IF kind = "stale" /\ i = 1 THEN <<3>>
                              ELSE IF kind = "recount" THEN items[i].value.ranks
                              ELSE <<3>> \o items[i].value.ranks,
                    url |-> "u", mobileUrl |-> "", summary |-> ""]]]

TitleInfoOf(results, kind) ==
    [s \in 1..Len(results) |->
        [key |-> results[s].key,
         value |-> InfoItems(results[s].value, kind, results[s].key)]]

\* the first title of each source of results
FirstTitles(results) ==
    [s \in 1..Len(results) |->
        [key |-> results[s].key, value |-> <<results[s].value[1]>>]]

InfoKinds == {"none", "all", "stale", "recount"}

TitleInfoFor(results, kind) ==
    IF kind = "none" THEN <<>> ELSE TitleInfoOf(results, kind)

NewTitlesFor(results, kind) ==
    IF kind = "none" THEN <<>> ELSE FirstTitles(results)

Modes == {"daily", "current", "incremental"}

\* CONFIG["WEIGHT_CONFIG"], in tenths, and CONFIG["RANK_THRESHOLD"]
WeightConfigs ==
    {[RANK_WEIGHT |-> 6, FREQUENCY_WEIGHT |-> 3, HOTNESS_WEIGHT |-> 1],
     [RANK_WEIGHT |-> 6, FREQUENCY_WEIGHT |-> 0, HOTNESS_WEIGHT |-> 1]}
RankThresholds == {2}

NoCall == [mode |-> "none"]
NoStats == [stats |-> <<>>, total_titles |-> -1]

Call(r, f, ti, nt, m, first, rt, wc) ==
    [results |-> r, frequency_words |-> f,
     id_to_name |-> <<[key |-> "A", value |-> PlatformName("A")]>>,
     title_info |-> TitleInfoFor(r, ti), new_titles |-> NewTitlesFor(r, nt),
     mode |-> m, is_first_today |-> first, rank_threshold |-> rt,
     weight_config |-> wc]

Calls ==
    {Call(ResultsOf(c[1], c[2], c[10]), c[3], c[4], c[5], c[6], c[7], c[8], c[9]) :
        c \in TitleLists \X {<<>>, <<"AI chip">>} \X FrequencyFiles
               \X InfoKinds \X {"none", "first"} \X Modes
               \X BOOLEAN \X RankThresholds \X WeightConfigs \X RankKinds}

(***************************************************************************)
(* The state.                                                              *)
(***************************************************************************)
VARIABLES
    feed,           \* the feed of the day
    platforms,      \* the ids of CONFIG["PLATFORMS"]
    clock,          \* the minute get_beijing_time() returns
    files,          \* the sorted listing of output/<date>/txt
    pc,             \* where NewsAnalyzer.run is: "idle" or "crawled"
    report_mode,    \* self.report_mode of the run
    title_files,    \* the stems of the files the run has written
    crawled,        \* what _crawl_data returned
    new_titles,     \* detect_latest_new_titles of _execute_mode_strategy
    loaded,         \* what _load_analysis_data returned
    realtime,       \* what the first _run_analysis_pipeline of the run made
    summary,        \* what the one of the summary report made
    accum,          \* (all_results, title_info) of a caller of process_source_data
    folded,         \* the calls of process_source_data made on accum
    held,           \* the title_data dicts of those calls, as they are now
    call,           \* the arguments of a call of count_word_frequency
    stats,          \* what that call returned
    report,         \* what prepare_report_data made of it
    weighed,        \* a call of calculate_news_weight and what it returned
    split,          \* the arguments of a call of split_content_into_batches
    split_pc,       \* "called" until that call returns
    batches,        \* the list that call returned
    printed,        \* what that call wrote to standard output
    posted,         \* the texts the sender of the channel posted, batch by batch
    push_config,    \* CONFIG["PUSH_WINDOW"] and the channels that are configured
    today,          \* the day and the minute get_beijing_time() returns
    push_records,   \* the days that output/.push_records holds a record of
    pushed,         \* the last call of send_to_notifications and how it ended
    fetching,       \* a call of DataFetcher.fetch_data, request by request
    crawling        \* the call of DataFetcher.crawl_websites that made it

day_vars ==
    <<feed, platforms, clock, files, pc, report_mode, title_files, crawled,
      new_titles, loaded, realtime, summary>>
call_vars == <<accum, folded, held, call, stats, report>>
weight_vars == <<weighed>>
batch_vars == <<split, split_pc, batches, printed, posted>>
push_vars == <<push_config, today, push_records, pushed>>
fetch_vars == <<fetching, crawling>>
vars == <<day_vars, call_vars, weight_vars, batch_vars, push_vars, fetch_vars>>

\* ids_list of _crawl_data: the platforms in configuration order
RECURSIVE IdsListFrom(_, _)
IdsListFrom(ids, i) ==
    IF i > Len(SourceOrder) THEN <<>>
    ELSE (IF SourceOrder[i] \in ids THEN <<SourceOrder[i]>> ELSE <<>>)
         \o IdsListFrom(ids, i + 1)

\* open(file_path, "w") on the file named by the minute: a file of the same
\* minute is overwritten
WriteFile(dir, stem, lines) ==
    IF dir # <<>> /\ dir[Len(dir)].stem = stem
    THEN [dir EXCEPT ![Len(dir)] = [stem |-> stem, lines |-> lines]]
    ELSE Append(dir, [stem |-> stem, lines |-> lines])

NoCrawl == [results |-> EmptyDict, id_to_name |-> EmptyDict, failed_ids |-> <<>>]

NoAnalysis ==
    [all_results |-> EmptyDict, id_to_name |-> EmptyDict,
     title_info |-> EmptyDict, new_titles |-> EmptyDict]

\* what _load_analysis_data returns of the ledger and the new titles
Loaded(ledger, latest_new_titles) ==
    [all_results |-> ledger.all_results,
     id_to_name |-> ledger.id_to_name,
     title_info |-> ledger.title_info,
     new_titles |-> latest_new_titles]

\* _load_analysis_data
load_analysis_data(dir, ids) ==
    Loaded(read_all_today_titles(dir, PlatformFilter(ids)),
           detect_latest_new_titles(dir, PlatformFilter(ids)))

NoLedger == [all_results |-> EmptyDict, title_info |-> EmptyDict]

NoReport == [total_new_count |-> -1]
NoWeight == [total_weight |-> [num |-> -1, den |-> 1]]

\* no call of process_source_data, count_word_frequency or
\* calculate_news_weight is followed
NoCalls ==
    /\ accum = NoLedger
    /\ folded = <<>>
    /\ held = <<>>
    /\ call = NoCall
    /\ stats = NoStats
    /\ report = NoReport
    /\ weighed = NoWeight

\* update_info of no newer version
NoUpdate == [remote_version |-> "", current_version |-> ""]

\* no call of split_content_into_batches
NoSplit ==
    [report_data |-> ReportData(<<>>, <<>>, <<>>), format_type |-> "none",
     update_info |-> NoUpdate, max_bytes |-> 0, mode |-> "daily"]

\* no call of split_content_into_batches is followed
NoBatches ==
    /\ split = NoSplit
    /\ split_pc = "idle"
    /\ batches = <<>>
    /\ printed = <<>>
    /\ posted = <<>>

\* CONFIG["PUSH_WINDOW"] as load_config makes it without a push_window
\* section, and no channel
NoPushConfig ==
    [ENABLED |-> FALSE, ONCE_PER_DAY |-> TRUE, START |-> "08:00", END |-> "22:00",
     RECORD_RETENTION_DAYS |-> 7, channels |-> {}]

\* send_to_notifications was not called
NoPush == [sent |-> <<>>, results |-> EmptyDict, outcome |-> "none", recorded |-> FALSE]

\* fetch_data is not called
NoFetch ==
    [id_value |-> "", max_retries |-> 0, retries |-> 0, answers |-> <<>>,
     pc |-> "idle", data |-> [is_none |-> TRUE]]

\* crawl_websites is not called
NoCrawling ==
    [ids_list |-> <<>>, i |-> 0, results |-> EmptyDict, id_to_name |-> EmptyDict,
     failed_ids |-> <<>>, pc |-> "idle"]

\* no call of send_to_notifications, fetch_data or crawl_websites is followed
NoPushes ==
    /\ push_config = NoPushConfig
    /\ today = [day |-> 1, minute |-> 0]
    /\ push_records = {}
    /\ pushed = NoPush
    /\ fetching = NoFetch
    /\ crawling = NoCrawling

(***************************************************************************)
(* NewsAnalyzer._run_analysis_pipeline and its callers.  The dicts of the  *)
(* day are handed to count_word_frequency as their items in insertion      *)
(* order, which is the order in which the keys were first met.             *)
(***************************************************************************)
\* format_time_filename(), "%H-%M", at the minute t of the modelled hour
TimeInfo(t) == "09-0" \o str(t)

\* the keys of a dict in insertion order: those of keys that allowed holds,
\* each at its first place
RECURSIVE KeysSeen(_, _, _)
KeysSeen(keys, allowed, acc) ==
    IF keys = <<>> THEN acc
    ELSE KeysSeen(Tail(keys), allowed,
             IF Head(keys) \in allowed /\ ~\E i \in 1..Len(acc) : acc[i] = Head(keys)
             THEN Append(acc, Head(keys)) ELSE acc)

\* the titles that pairs holds for source_id, in order
RECURSIVE TitlesOfPairs(_, _)
TitlesOfPairs(pairs, source_id) ==
    IF pairs = <<>> THEN <<>>
    ELSE (IF Head(pairs)[1] = source_id THEN <<Head(pairs)[2]>> ELSE <<>>)
         \o TitlesOfPairs(Tail(pairs), source_id)

\* d[source_id].items(), the titles having been inserted in the order of pairs
SourceItems(d, pairs, source_id) ==
    LET titles == KeysSeen(TitlesOfPairs(pairs, source_id), DOMAIN d[source_id], <<>>)
    IN  [j \in 1..Len(titles) |->
            [key |-> titles[j], value |-> d[source_id][titles[j]]]]

\* d.items() of a dict of dicts, (source_id, title) having been inserted in
\* the order of pairs
ItemsIn(d, pairs) ==
    LET sources == KeysSeen([i \in 1..Len(pairs) |-> pairs[i][1]], DOMAIN d, <<>>)
    IN  [i \in 1..Len(sources) |->
            [key |-> sources[i], value |-> SourceItems(d, pairs, sources[i])]]

\* id_to_name.items()
NameItems(id_to_name) ==
    [i \in 1..Len(KeysInOrder(id_to_name)) |->
        [key |-> KeysInOrder(id_to_name)[i],
         value |-> id_to_name[KeysInOrder(id_to_name)[i]]]]

\* results[id_value] of crawl_websites is filled in the order of the items:
\* by rising first rank
RECURSIVE ByFirstRank(_, _, _)
ByFirstRank(source_id, title_data, left) ==
    IF left = {} THEN <<>>
    ELSE LET t == CHOOSE t \in left : \A u \in left :
                      FirstRank(title_data[t]) <= FirstRank(title_data[u])
         IN  <<<<source_id, t>>>> \o ByFirstRank(source_id, title_data, left \ {t})

RECURSIVE CrawlPairsOf(_, _)
CrawlPairsOf(results, keys) ==
    IF keys = <<>> THEN <<>>
    ELSE ByFirstRank(Head(keys), results[Head(keys)], DOMAIN results[Head(keys)])
         \o CrawlPairsOf(results, Tail(keys))

\* the (source_id, title) of results in the order crawl_websites met them
CrawlPairs(results) == CrawlPairsOf(results, KeysInOrder(results))

\* the (source_id, title) of the lines of one section, as parse_file_titles
\* meets them
RECURSIVE LinePairs(_, _)
LinePairs(source_id, lines) ==
    IF lines = <<>> THEN <<>>
    ELSE (IF Strip(Head(lines)) = "" THEN <<>>
          ELSE <<<<source_id, ParseLine(Head(lines)).title>>>>)
         \o LinePairs(source_id, Tail(lines))

RECURSIVE SectionPairs(_)
SectionPairs(sections) ==
    IF sections = <<>> THEN <<>>
    ELSE (IF SectionSkipped(Head(sections)) THEN <<>>
          ELSE LinePairs(ParseHeader(Head(sections)[1]).source_id,
                         Tail(Head(sections))))
         \o SectionPairs(Tail(sections))

\* the (source_id, title) of one file in the order parse_file_titles met them
FilePairs(lines) == SectionPairs(SplitSections(lines, <<>>))

\* those of the files of the day, in the order read_all_today_titles met them
RECURSIVE DirPairs(_, _)
DirPairs(dir, i) ==
    IF i > Len(dir) THEN <<>>
    ELSE FilePairs(dir[i].lines) \o DirPairs(dir, i + 1)

\* the first_time and last_time of an entry, as the strings they are
TimedEntry(entry) ==
    [first_time |-> TimeInfo(entry.first_time),
     last_time |-> TimeInfo(entry.last_time),
     count |-> entry.count, ranks |-> entry.ranks,
     url |-> entry.url, mobileUrl |-> entry.mobileUrl]

\* title_info.items() of the ledger
InfoItemsIn(title_info, pairs) ==
    LET items == ItemsIn(title_info, pairs)
    IN  [i \in 1..Len(items) |->
            [key |-> items[i].key,
             value |-> [j \in 1..Len(items[i].value) |->
                           [key |-> items[i].value[j].key,
                            value |-> TimedEntry(items[i].value[j].value)]]]]

\* _prepare_current_title_info
prepare_current_title_info(results, time_info) ==
    [s \in DOMAIN results |->
        [t \in DOMAIN results[s] |->
            [first_time |-> time_info, last_time |-> time_info, count |-> 1,
             ranks |-> results[s][t].ranks, url |-> results[s][t].url,
             mobileUrl |-> results[s][t].mobileUrl]]]

\* the new titles of detect_latest_new_titles, which follow the latest file
NewItems(delta, dir) ==
    IF dir = <<>> THEN <<>> ELSE ItemsIn(delta, FilePairs(dir[Len(dir)].lines))

\* is_first_crawl_today(), dir being the listing of the txt directory
is_first_crawl_today(dir) == Len(dir) <= 1

NoPipeline == [stats |-> <<>>, total_titles |-> -1, report |-> NoReport]

\* _run_analysis_pipeline: (stats, total_titles) of count_word_frequency and
\* the report_data of generate_html_report
run_analysis_pipeline(data_source, mode, title_info, latest_new_titles, words, id_to_name, failed_ids, dir) ==
    LET counted == count_word_frequency(data_source, words.word_groups,
                       words.filter_words, id_to_name, title_info,
                       DayConfig.RANK_THRESHOLD, latest_new_titles, mode,
                       is_first_crawl_today(dir), DayConfig.WEIGHT_CONFIG)
    IN  [stats |-> counted.stats,
         total_titles |-> counted.total_titles,
         report |-> prepare_report_data(counted.stats, failed_ids,
                        latest_new_titles, id_to_name, mode, words.word_groups,
                        words.filter_words, DayConfig.RANK_THRESHOLD)]

\* "if not all_results: return None"
IsNone(analysis_data) == analysis_data.all_results = EmptyDict

\* the pipeline on what _load_analysis_data returned
HistoricalPipeline(analysis_data, mode, words, failed_ids, dir) ==
    run_analysis_pipeline(ItemsIn(analysis_data.all_results, DirPairs(dir, 1)),
        mode, InfoItemsIn(analysis_data.title_info, DirPairs(dir, 1)),
        NewItems(analysis_data.new_titles, dir), words,
        NameItems(analysis_data.id_to_name), failed_ids, dir)

\* the pipeline on what the run crawled
CrawledPipeline(crawl, mode, time_info, latest_new_titles, words, dir, dir_before) ==
    run_analysis_pipeline(ItemsIn(crawl.results, CrawlPairs(crawl.results)),
        mode,
        InfoItemsIn(prepare_current_title_info(crawl.results, time_info),
                    CrawlPairs(crawl.results)),
        NewItems(latest_new_titles, dir_before), words,
        NameItems(crawl.id_to_name), crawl.failed_ids, dir)

\* the first pipeline of _execute_mode_strategy; in current mode a load that
\* returns None raises RuntimeError
RealtimePipeline(mode, crawl, time_info, latest_new_titles, analysis_data, words, dir, dir_before) ==
    IF mode = "current"
    THEN (IF IsNone(analysis_data) THEN NoPipeline
          ELSE HistoricalPipeline(analysis_data, mode, words, crawl.failed_ids, dir))
    ELSE CrawledPipeline(crawl, mode, time_info, latest_new_titles, words, dir,
                         dir_before)

\* MODE_STRATEGIES[...]["summary_mode"], the strategy of an unknown mode
\* being that of daily
SummaryMode(mode) == IF mode = "current" THEN "current" ELSE "daily"

\* _generate_summary_html and _generate_summary_report: None when the load
\* returns None, which in current mode has raised RuntimeError before
SummaryPipeline(mode, analysis_data, words, dir) ==
    IF IsNone(analysis_data) THEN NoPipeline
    ELSE HistoricalPipeline(analysis_data, SummaryMode(mode), words, <<>>, dir)

Init ==
    /\ feed \in Feeds
    /\ platforms \in Configs(feed)
    /\ clock = 1
    /\ files = <<>>
    /\ pc = "idle"
    /\ report_mode \in ReportModes(feed)
    /\ title_files = <<>>
    /\ crawled = NoCrawl
    /\ new_titles = EmptyDict
    /\ loaded = NoAnalysis
    /\ realtime = NoPipeline
    /\ summary = NoPipeline
    /\ NoCalls
    /\ NoBatches
    /\ NoPushes

\* the minute may have passed since the clock was last read
Minutes == {t \in {clock, clock + 1} : t <= MaxMinute}

\* A run starts: a new process loads the configuration, as it is edited by
\* then (CONFIG = load_config()), and holds no result of the previous run.
\* Then NewsAnalyzer._crawl_data: crawl_websites, then save_titles_to_file.
CrawlData ==
    /\ pc = "idle"
    /\ platforms' \in Configs(feed)
    /\ report_mode' \in ReportModes(feed)
    /\ \E responses \in Responses(feed, platforms'), t \in Minutes :
          /\ crawled' = crawl_websites(IdsListFrom(platforms', 1), responses)
          /\ clock' = t
          /\ files' = WriteFile(files, t,
                          save_titles_to_file(crawled'.results,
                                              crawled'.id_to_name,
                                              crawled'.failed_ids))
          /\ title_files' = <<t>>
    /\ new_titles' = EmptyDict
    /\ loaded' = NoAnalysis
    /\ realtime' = NoPipeline
    /\ summary' = NoPipeline
    /\ pc' = "crawled"
    /\ UNCHANGED <<feed, call_vars, weight_vars, batch_vars, push_vars, fetch_vars>>

\* NewsAnalyzer._execute_mode_strategy: detect_latest_new_titles, the second
\* save_titles_to_file, the pipeline of the mode, then the summary, which
\* loads the data of the day with _load_analysis_data
ExecuteModeStrategy ==
    /\ pc = "crawled"
    /\ new_titles' = detect_latest_new_titles(files, PlatformFilter(platforms))
    /\ \E t \in Minutes :
          /\ clock' = t
          /\ files' = WriteFile(files, t,
                          save_titles_to_file(crawled.results, crawled.id_to_name,
                                              crawled.failed_ids))
          /\ title_files' = Append(title_files, t)
    /\ loaded' = load_analysis_data(files', platforms)
    /\ realtime' = RealtimePipeline(report_mode, crawled, clock', new_titles',
                        loaded', load_frequency_words(FrequencyWords(feed)),
                        files', files)
    /\ summary' = SummaryPipeline(report_mode, loaded',
                       load_frequency_words(FrequencyWords(feed)), files')
    /\ pc' = "idle"
    /\ UNCHANGED <<feed, platforms, report_mode, crawled, call_vars, weight_vars,
                 batch_vars, push_vars, fetch_vars>>

Next == CrawlData \/ ExecuteModeStrategy

Spec == Init /\ [][Next]_vars

(***************************************************************************)
(* A caller of process_source_data: the blocks it folds, one call after    *)
(* the other, in the order of their time_info.                             *)
(***************************************************************************)
\* no run of the day is followed
NoDay ==
    /\ feed = "ranks"
    /\ platforms = {"A"}
    /\ clock = 1
    /\ files = <<>>
    /\ pc = "idle"
    /\ report_mode = "daily"
    /\ title_files = <<>>
    /\ crawled = NoCrawl
    /\ new_titles = EmptyDict
    /\ loaded = NoAnalysis
    /\ realtime = NoPipeline
    /\ summary = NoPipeline

InitUnit == NoDay /\ NoCalls /\ NoBatches /\ NoPushes

\* the time_info of the last call, 1 before the first
LastTimeInfo == IF folded = <<>> THEN 1 ELSE folded[Len(folded)].time_info

\* the first of the calls made for source_id, 0 when there is none
FirstCallFor(calls, source_id) ==
    IF \E i \in 1..Len(calls) : calls[i].source_id = source_id
    THEN SetMin({i \in 1..Len(calls) : calls[i].source_id = source_id})
    ELSE 0

\* The dicts that the caller passed as title_data, after one more call.
\* "all_results[source_id] = title_data" stores the caller's dict itself, not
\* a copy, so the dict of the first call for a source is all_results[source_id]
\* from then on, and every "all_results[source_id][title] = ..." of a later
\* call is an assignment into it.
HeldAfter(dicts, calls, source_id, title_data, all_results) ==
    [i \in 1..(Len(dicts) + 1) |->
        IF i = FirstCallFor(Append(calls, [source_id |-> source_id]), source_id)
        THEN all_results[source_id]
        ELSE IF i <= Len(dicts) THEN dicts[i] ELSE title_data]

ProcessSourceData ==
    /\ Len(folded) < MaxCalls
    /\ \E source_id \in Sources, title_data \in Blocks,
          time_info \in {LastTimeInfo, LastTimeInfo + 1} :
          /\ accum' = process_source_data(source_id, title_data, time_info,
                                           accum.all_results, accum.title_info)
          /\ folded' = Append(folded, [source_id |-> source_id,
                                       title_data |-> title_data,
                                       time_info |-> time_info])
          /\ held' = HeldAfter(held, folded, source_id, title_data,
                               accum'.all_results)
    /\ UNCHANGED <<day_vars, call, stats, report, weight_vars, batch_vars, push_vars, fetch_vars>>

NextUnit == ProcessSourceData

SpecUnit == InitUnit /\ [][NextUnit]_vars

(***************************************************************************)
(* A caller of count_word_frequency, with the word groups and filter words *)
(* load_frequency_words returns for the frequency words file.              *)
(***************************************************************************)
InitMatch ==
    /\ NoDay
    /\ accum = NoLedger
    /\ folded = <<>>
    /\ held = <<>>
    /\ call \in Calls
    /\ stats = NoStats
    /\ report = NoReport
    /\ weighed = NoWeight
    /\ NoBatches
    /\ NoPushes

CallStats(c, words) ==
    count_word_frequency(c.results, words.word_groups, words.filter_words,
                         c.id_to_name, c.title_info, c.rank_threshold,
                         c.new_titles, c.mode, c.is_first_today, c.weight_config)

CountWordFrequency ==
    /\ call # NoCall
    /\ stats = NoStats
    /\ stats' = CallStats(call, load_frequency_words(call.frequency_words))
    /\ UNCHANGED <<day_vars, accum, folded, held, call, report, weight_vars, batch_vars, push_vars, fetch_vars>>

\* generate_html_report: prepare_report_data on what count_word_frequency
\* returned
PrepareReportData ==
    /\ stats # NoStats
    /\ report = NoReport
    /\ report' = prepare_report_data(stats.stats, <<>>, call.new_titles,
                      call.id_to_name, call.mode,
                      load_frequency_words(call.frequency_words).word_groups,
                      load_frequency_words(call.frequency_words).filter_words,
                      call.rank_threshold)
    /\ UNCHANGED <<day_vars, accum, folded, held, call, stats, weight_vars, batch_vars, push_vars, fetch_vars>>

NextMatch == CountWordFrequency \/ PrepareReportData

SpecMatch == InitMatch /\ [][NextMatch]_vars

(***************************************************************************)
(* A caller of calculate_news_weight on a title that is seen again and     *)
(* again at the ranks it has: the count goes up by one from call to call.  *)
(***************************************************************************)
MaxCount == 12

\* title_data["ranks"]
WeighedRanks == {<<>>, <<1>>, <<3>>, <<12>>, <<2, 11>>, <<1, 2, 5>>}

\* CONFIG["WEIGHT_CONFIG"], in tenths
WeightChoices ==
    WeightConfigs \cup {[RANK_WEIGHT |-> 0, FREQUENCY_WEIGHT |-> 10, HOTNESS_WEIGHT |-> 0],
                        [RANK_WEIGHT |-> 0, FREQUENCY_WEIGHT |-> 0, HOTNESS_WEIGHT |-> 0]}

\* the call and its return value; frequency_weight is the local of that
\* name, 0 when the call returned before setting it
Weighed(title_data, rank_threshold, weight_config) ==
    [title_data |-> title_data,
     rank_threshold |-> rank_threshold,
     weight_config |-> weight_config,
     frequency_weight |-> IF title_data.ranks = <<>> THEN 0
                          ELSE FrequencyWeight(title_data.count),
     total_weight |-> calculate_news_weight(title_data, rank_threshold, weight_config)]

InitWeight ==
    /\ NoDay
    /\ accum = NoLedger
    /\ folded = <<>>
    /\ held = <<>>
    /\ call = NoCall
    /\ stats = NoStats
    /\ report = NoReport
    /\ NoBatches
    /\ NoPushes
    /\ weighed \in {Weighed([ranks |-> r, count |-> 1], rt, wc) :
                       r \in WeighedRanks, rt \in {2, 5}, wc \in WeightChoices}

CalculateNewsWeight ==
    /\ weighed # NoWeight
    /\ weighed.title_data.count < MaxCount
    /\ weighed' = Weighed([weighed.title_data EXCEPT !.count = @ + 1],
                          weighed.rank_threshold, weighed.weight_config)
    /\ UNCHANGED <<day_vars, call_vars, batch_vars, push_vars, fetch_vars>>

NextWeight == CalculateNewsWeight

SpecWeight == InitWeight /\ [][NextWeight]_vars

(***************************************************************************)
(* split_content_into_batches.  A batch is a Python str; it is kept here   *)
(* as the sequence of the strings that were concatenated into it, each     *)
(* with the name of the variable of the code that held it and the place of *)
(* the report it renders, so that the text of the batch is the             *)
(* concatenation of the texts of its pieces.  A character that is not      *)
(* ASCII is written as a brace token of as many ASCII characters as it     *)
(* has bytes in UTF-8, so that len(s.encode("utf-8")) is Len.              *)
(***************************************************************************)
\* U+1F4CA, U+1F525, U+1F4C8, U+1F4CC, U+1F195, U+1F4ED: four bytes each
BarChart == "{BC}"
Fire == "{FI}"
ChartUp == "{UP}"
Pushpin == "{PN}"
NewSign == "{NW}"
Mailbox == "{MB}"
\* U+26A0 U+FE0F: six bytes
WarningSign == "{WARN}"
\* U+2022: three bytes
Bullet == "{*}"
\* U+0060, which a TLA+ string cannot hold: one byte
Backquote == "^"

\* len(s.encode("utf-8"))
Utf8Len(s) == Len(s)

\* now.strftime('%Y-%m-%d %H:%M:%S') at minute t of the modelled day
strftime(t) == "2026-01-01 09:0" \o str(t) \o ":00"

\* CONFIG["FEISHU_MESSAGE_SEPARATOR"]
FEISHU_MESSAGE_SEPARATOR == "---"

EscapeChar(c) ==
    CASE c = "&" -> "&amp;"
      [] c = "<" -> "&lt;"
      [] c = ">" -> "&gt;"
      [] c = "\"" -> "&quot;"
      [] c = "'" -> "&#x27;"
      [] OTHER -> c

RECURSIVE html_escape(_)
html_escape(text) ==
    IF text = "" THEN ""
    ELSE EscapeChar(CharAt(text, 1)) \o html_escape(DropFirst(text))

format_rank_display(ranks, rank_threshold, format_type) ==
    IF ranks = <<>> THEN ""
    ELSE LET unique_ranks == {ranks[i] : i \in DOMAIN ranks}
             min_rank == SetMin(unique_ranks)
             max_rank == SetMax(unique_ranks)
             highlight_start ==
                 CASE format_type = "html" -> "<font color='red'><strong>"
                   [] format_type = "feishu" -> "<font color='red'>**"
                   [] format_type = "telegram" -> "<b>"
                   [] OTHER -> "**"
             highlight_end ==
                 CASE format_type = "html" -> "</strong></font>"
                   [] format_type = "feishu" -> "**</font>"
                   [] format_type = "telegram" -> "</b>"
                   [] OTHER -> "**"
             span == IF min_rank = max_rank THEN "[" \o str(min_rank) \o "]"
                     ELSE "[" \o str(min_rank) \o " - " \o str(max_rank) \o "]"
         IN  IF min_rank <= rank_threshold
             THEN highlight_start \o span \o highlight_end
             ELSE span

\* the channels format_title_for_platform renders for a batch
Platforms == {"feishu", "dingtalk", "wework", "telegram", "ntfy"}

format_title_for_platform(platform, title_data, show_source) ==
    LET rank_display == format_rank_display(title_data.ranks,
                                            title_data.rank_threshold, platform)
        link_url == OrElse(title_data.mobile_url, title_data.url)
        cleaned_title == clean_title(title_data.title)
        formatted_title ==
            IF link_url = "" THEN cleaned_title
            ELSE IF platform = "telegram"
                 THEN "<a href=\"" \o link_url \o "\">"
                      \o html_escape(cleaned_title) \o "</a>"
                 ELSE "[" \o cleaned_title \o "](" \o link_url \o ")"
        title_prefix == IF title_data.is_new THEN NewSign \o " " ELSE ""
        source == IF platform = "feishu"
                  THEN "<font color='grey'>[" \o title_data.source_name \o "]</font> "
                  ELSE "[" \o title_data.source_name \o "] "
        time_open == CASE platform = "feishu" -> " <font color='grey'>- "
                       [] platform = "telegram" -> " <code>- "
                       [] platform = "ntfy" -> " " \o Backquote \o "- "
                       [] OTHER -> " - "
        count_open == CASE platform = "feishu" -> " <font color='green'>("
                        [] platform = "telegram" -> " <code>("
                        [] platform = "ntfy" -> " " \o Backquote \o "("
                        [] OTHER -> " ("
        close == CASE platform = "feishu" -> "</font>"
                   [] platform = "telegram" -> "</code>"
                   [] platform = "ntfy" -> Backquote
                   [] OTHER -> ""
    IN  IF platform \notin Platforms THEN cleaned_title
        ELSE (IF show_source THEN source ELSE "")
             \o title_prefix \o formatted_title
             \o (IF rank_display = "" THEN "" ELSE " " \o rank_display)
             \o (IF title_data.time_display = "" THEN ""
                 ELSE time_open \o title_data.time_display \o close)
             \o (IF title_data.count > 1
                 THEN count_open \o str(title_data.count) \o " times)" \o close
                 ELSE "")

\* one string of a batch: the variable of the code that held it, the place
\* of the report it renders, and its text
Piece(part, at, text) == [part |-> part, at |-> at, text |-> text]

\* len(batch.encode("utf-8")) of the concatenation of the pieces
RECURSIVE Bytes(_)
Bytes(pieces) ==
    IF pieces = <<>> THEN 0
    ELSE Utf8Len(Head(pieces).text) + Bytes(Tail(pieces))

\* s as the pieces of a batch: nothing when s is empty
Text(part, at, s) == IF s = "" THEN <<>> ELSE <<Piece(part, at, s)>>

\* total_titles of split_content_into_batches
RECURSIVE StatTitles(_)
StatTitles(stats_list) ==
    IF stats_list = <<>> THEN 0
    ELSE (IF Head(stats_list).count > 0 THEN Len(Head(stats_list).titles) ELSE 0)
         + StatTitles(Tail(stats_list))

\* "**" around s on the channels that render Markdown bold
Bold(format_type, s) ==
    IF format_type = "telegram" THEN s ELSE "**" \o s \o "**"

base_header(format_type, total_titles, now) ==
    CASE format_type = "wework" ->
           "**Total News:** " \o str(total_titles) \o "\n\n\n\n"
      [] format_type = "telegram" ->
           "Total News: " \o str(total_titles) \o "\n\n"
      [] format_type = "ntfy" ->
           "**Total News:** " \o str(total_titles) \o "\n\n"
      [] format_type = "dingtalk" ->
           "**Total News:** " \o str(total_titles) \o "\n\n"
           \o "**Time:** " \o now \o "\n\n"
           \o "**Type:** TrendRadar Analysis Report\n\n"
           \o "---\n\n"
      [] OTHER -> ""

base_footer(format_type, now, update_info) ==
    LET version ==
            IF update_info = NoUpdate THEN ""
            ELSE IF format_type \in {"telegram", "feishu"}
                 THEN "TrendRadar New Version " \o update_info.remote_version
                      \o " Found, Current " \o update_info.current_version
                 ELSE "TrendRadar New Version **" \o update_info.remote_version
                      \o "** Found, Current **" \o update_info.current_version
                      \o "**"
        quoted(s) == IF s = "" THEN "" ELSE "\n> " \o s
    IN  CASE format_type = "wework" ->
               "\n\n\n> Updated: " \o now \o quoted(version)
          [] format_type = "telegram" ->
               "\n\nUpdated: " \o now
               \o (IF version = "" THEN "" ELSE "\n" \o version)
          [] format_type \in {"ntfy", "dingtalk"} ->
               "\n\n> Updated: " \o now \o quoted(version)
          [] format_type = "feishu" ->
               "\n\n<font color='grey'>Updated: " \o now \o "</font>"
               \o (IF version = "" THEN ""
                   ELSE "\n<font color='grey'>" \o version \o "</font>")
          [] OTHER -> ""

stats_header(format_type, report_data) ==
    IF report_data.stats = <<>> \/ format_type \notin Platforms THEN ""
    ELSE BarChart \o " " \o Bold(format_type, "Trending Keywords Stats") \o "\n\n"

\* simple_content of a report without content
simple_content(mode) ==
    Mailbox \o " "
    \o (CASE mode = "incremental" ->
               "No new matching trending keywords in incremental mode"
          [] mode = "current" ->
               "No matching trending keywords in current ranking mode"
          [] OTHER -> "No matching trending keywords")
    \o "\n\n"

word_header(format_type, i, total_count, stat) ==
    LET sequence_display == "[" \o str(i) \o "/" \o str(total_count) \o "]"
        sign == IF stat.count >= 10 THEN Fire
                ELSE IF stat.count >= 5 THEN ChartUp ELSE Pushpin
        hot == stat.count >= 5
    IN  CASE format_type \in {"wework", "ntfy", "dingtalk"} ->
               sign \o " " \o sequence_display \o " **" \o stat.word \o "** : "
               \o (IF hot THEN "**" \o str(stat.count) \o "**" ELSE str(stat.count))
               \o " items\n\n"
          [] format_type = "telegram" ->
               sign \o " " \o sequence_display \o " " \o stat.word \o " : "
               \o str(stat.count) \o " items\n\n"
          [] format_type = "feishu" ->
               sign \o " <font color='grey'>" \o sequence_display \o "</font> **"
               \o stat.word \o "** : "
               \o (IF stat.count >= 10
                   THEN "<font color='red'>" \o str(stat.count) \o "</font>"
                   ELSE IF hot
                   THEN "<font color='orange'>" \o str(stat.count) \o "</font>"
                   ELSE str(stat.count))
               \o " items\n\n"
          [] OTHER -> ""

\* news_line of title j of a keyword group of n titles
StatLine(format_type, title_data, j, n) ==
    "  " \o str(j) \o ". "
    \o (IF format_type \in Platforms
        THEN format_title_for_platform(format_type, title_data, TRUE)
        ELSE title_data.title)
    \o "\n" \o (IF j < n THEN "\n" ELSE "")

separator(format_type) ==
    CASE format_type = "wework" -> "\n\n\n\n"
      [] format_type \in {"telegram", "ntfy"} -> "\n\n"
      [] format_type = "feishu" -> "\n" \o FEISHU_MESSAGE_SEPARATOR \o "\n\n"
      [] format_type = "dingtalk" -> "\n---\n\n"
      [] OTHER -> ""

new_header(format_type, report_data) ==
    IF format_type \notin Platforms THEN ""
    ELSE separator(format_type) \o NewSign \o " "
         \o Bold(format_type, "New Trending News")
         \o " (Total " \o str(report_data.total_new_count) \o " items)\n\n"

source_header(format_type, source_data) ==
    IF format_type \notin Platforms THEN ""
    ELSE Bold(format_type, source_data.source_name)
         \o " (" \o str(Len(source_data.titles)) \o " items):\n\n"

\* news_line of title j of a source of new titles: the ntfy channel has no
\* branch there and the title goes out as it is
NewLine(format_type, title_data, j) ==
    "  " \o str(j) \o ". "
    \o (IF format_type \in Platforms \ {"ntfy"}
        THEN format_title_for_platform(format_type,
                                       [title_data EXCEPT !.is_new = FALSE], FALSE)
        ELSE title_data.title)
    \o "\n"

failed_header(format_type) ==
    IF format_type \notin Platforms THEN ""
    ELSE separator(format_type) \o WarningSign \o " "
         \o Bold(format_type, "Platforms Failed to Fetch:") \o "\n\n"

failed_line(format_type, id_value) ==
    "  " \o Bullet \o " "
    \o (CASE format_type = "feishu" -> "<font color='red'>" \o id_value \o "</font>"
          [] format_type = "dingtalk" -> "**" \o id_value \o "**"
          [] OTHER -> id_value)
    \o "\n"

\* what a call holds while it packs: the channel, the budget, the report,
\* and the strings every batch starts and ends with
Packing(report_data, format_type, update_info, max_bytes, now) ==
    [report_data |-> report_data,
     format_type |-> format_type,
     max_bytes |-> max_bytes,
     base_header |-> Text("base_header", <<>>,
                          base_header(format_type, StatTitles(report_data.stats), now)),
     base_footer |-> Text("base_footer", <<>>,
                          base_footer(format_type, now, update_info)),
     stats_header |-> Text("stats_header", <<>>,
                           stats_header(format_type, report_data)),
     new_header |-> Text("new_header", <<>>, new_header(format_type, report_data)),
     failed_header |-> Text("failed_header", <<>>, failed_header(format_type))]

\* batches, current_batch and current_batch_has_content before the sections
Started(ctx) ==
    [batches |-> <<>>,
     current_batch |-> ctx.base_header,
     current_batch_has_content |-> FALSE]

\* the test before every append: test_content and the footer stay under
\* max_bytes
FitsUpTo(ctx, current_batch, unit) ==
    Bytes(current_batch \o unit) + Bytes(ctx.base_footer) <= ctx.max_bytes

Fits(ctx, current_batch, unit) ==
    Bytes(current_batch \o unit) + Bytes(ctx.base_footer) < ctx.max_bytes

\* batches after "if current_batch_has_content: batches.append(...)"
Closed(ctx, st) ==
    IF st.current_batch_has_content
    THEN Append(st.batches, st.current_batch \o ctx.base_footer)
    ELSE st.batches

\* one unit: appended when it fits, else the batch is closed and the next
\* one starts with seed and the unit
Appended(ctx, st, seed, unit) ==
    [st EXCEPT !.current_batch = @ \o unit, !.current_batch_has_content = TRUE]

Unseeded(ctx, st, seed, unit) ==
    IF Fits(ctx, st.current_batch, unit)
    THEN [st EXCEPT !.current_batch = @ \o unit,
                    !.current_batch_has_content = TRUE]
    ELSE [batches |-> Closed(ctx, st),
          current_batch |-> ctx.base_header \o unit,
          current_batch_has_content |-> TRUE]

Placed(ctx, st, seed, unit) ==
    IF Fits(ctx, st.current_batch, unit)
    THEN [st EXCEPT !.current_batch = @ \o unit,
                    !.current_batch_has_content = TRUE]
    ELSE [batches |-> Closed(ctx, st),
          current_batch |-> seed \o unit,
          current_batch_has_content |-> TRUE]

WordHeader(ctx, i) ==
    Text("word_header", <<"stats", i>>,
         word_header(ctx.format_type, i, Len(ctx.report_data.stats),
                     ctx.report_data.stats[i]))

NewsLine(ctx, i, j) ==
    LET titles == ctx.report_data.stats[i].titles
    IN  Text("news_line", <<"stats", i, j>>,
             StatLine(ctx.format_type, titles[j], j, Len(titles)))

\* word_with_first_news of keyword group i
WordWithFirstNews(ctx, i) ==
    WordHeader(ctx, i)
    \o (IF ctx.report_data.stats[i].titles = <<>> THEN <<>> ELSE NewsLine(ctx, i, 1))

\* the titles of keyword group i from the j-th on
RECURSIVE RemainingNewsThatFit(_, _, _, _)
RemainingNewsThatFit(ctx, st, i, j) ==
    IF j > Len(ctx.report_data.stats[i].titles) THEN st
    ELSE RemainingNewsThatFit(ctx,
                              IF Fits(ctx, st.current_batch, NewsLine(ctx, i, j))
                              THEN [st EXCEPT !.current_batch = @ \o NewsLine(ctx, i, j)]
                              ELSE st,
                              i, j + 1)

RECURSIVE RemainingNews(_, _, _, _)
RemainingNews(ctx, st, i, j) ==
    IF j > Len(ctx.report_data.stats[i].titles) THEN st
    ELSE RemainingNews(ctx,
                       Placed(ctx, st,
                              ctx.base_header \o ctx.stats_header \o WordHeader(ctx, i),
                              NewsLine(ctx, i, j)),
                       i, j + 1)

\* the separator after a keyword group that is not the last: left out when
\* it does not fit
Separated(ctx, st, i) ==
    LET unit == Text("separator", <<"stats", i>>, separator(ctx.format_type))
    IN  IF i < Len(ctx.report_data.stats) /\ Fits(ctx, st.current_batch, unit)
        THEN [st EXCEPT !.current_batch = @ \o unit]
        ELSE st

RECURSIVE KeywordGroupsSplit(_, _, _)
KeywordGroupsSplit(ctx, st, i) ==
    IF i > Len(ctx.report_data.stats) THEN st
    ELSE KeywordGroupsSplit(ctx,
             Separated(ctx,
                 RemainingNews(ctx,
                     Placed(ctx, st, ctx.base_header \o ctx.stats_header,
                            WordHeader(ctx, i)),
                     i, 1),
                 i),
             i + 1)

RECURSIVE KeywordGroups(_, _, _)
KeywordGroups(ctx, st, i) ==
    IF i > Len(ctx.report_data.stats) THEN st
    ELSE KeywordGroups(ctx,
             Separated(ctx,
                 RemainingNews(ctx,
                     Placed(ctx, st, ctx.base_header \o ctx.stats_header,
                            WordWithFirstNews(ctx, i)),
                     i, 2),
                 i),
             i + 1)

StatsSection(ctx, st) ==
    IF ctx.report_data.stats = <<>> THEN st
    ELSE KeywordGroups(ctx, Placed(ctx, st, ctx.base_header, ctx.stats_header), 1)

SourceHeader(ctx, i) ==
    Text("source_header", <<"new_titles", i>>,
         source_header(ctx.format_type, ctx.report_data.new_titles[i]))

NewNewsLine(ctx, i, j) ==
    Text("news_line", <<"new_titles", i, j>>,
         NewLine(ctx.format_type, ctx.report_data.new_titles[i].titles[j], j))

\* source_with_first_news of source i
SourceWithFirstNews(ctx, i) ==
    SourceHeader(ctx, i)
    \o (IF ctx.report_data.new_titles[i].titles = <<>> THEN <<>>
        ELSE NewNewsLine(ctx, i, 1))

RECURSIVE RemainingNewNews(_, _, _, _)
RemainingNewNews(ctx, st, i, j) ==
    IF j > Len(ctx.report_data.new_titles[i].titles) THEN st
    ELSE RemainingNewNews(ctx,
             Placed(ctx, st,
                    ctx.base_header \o ctx.new_header \o SourceHeader(ctx, i),
                    NewNewsLine(ctx, i, j)),
             i, j + 1)

\* current_batch += "\n" after a source
SourceEnded(st, i) ==
    [st EXCEPT !.current_batch = @ \o Text("source_end", <<"new_titles", i>>, "\n")]

RECURSIVE NewSources(_, _, _)
NewSources(ctx, st, i) ==
    IF i > Len(ctx.report_data.new_titles) THEN st
    ELSE NewSources(ctx,
             SourceEnded(
                 RemainingNewNews(ctx,
                     Placed(ctx, st, ctx.base_header \o ctx.new_header,
                            SourceWithFirstNews(ctx, i)),
                     i, 2),
                 i),
             i + 1)

NewTitlesSection(ctx, st) ==
    IF ctx.report_data.new_titles = <<>> THEN st
    ELSE NewSources(ctx, Placed(ctx, st, ctx.base_header, ctx.new_header), 1)

FailedLine(ctx, i) ==
    Text("failed_line", <<"failed_ids", i>>,
         failed_line(ctx.format_type, ctx.report_data.failed_ids[i]))

RECURSIVE FailedLines(_, _, _)
FailedLines(ctx, st, i) ==
    IF i > Len(ctx.report_data.failed_ids) THEN st
    ELSE FailedLines(ctx,
             Placed(ctx, st, ctx.base_header \o ctx.failed_header, FailedLine(ctx, i)),
             i + 1)

FailedSection(ctx, st) ==
    IF ctx.report_data.failed_ids = <<>> THEN st
    ELSE FailedLines(ctx, Placed(ctx, st, ctx.base_header, ctx.failed_header), 1)

\* the batch of a report without content
NoticeWithoutFooter(ctx, mode) ==
    ctx.base_header \o Text("simple_content", <<>>, simple_content(mode))

NoticeBatch(ctx, mode) ==
    ctx.base_header \o Text("simple_content", <<>>, simple_content(mode))
    \o ctx.base_footer

\* max_bytes is the budget the caller passes or the one of the
\* configuration for the channel; now is what get_beijing_time() returns
split_content_into_batches(report_data, format_type, update_info, max_bytes, mode, now) ==
    LET ctx == Packing(report_data, format_type, update_info, max_bytes, now)
    IN  IF /\ report_data.stats = <<>>
           /\ report_data.new_titles = <<>>
           /\ report_data.failed_ids = <<>>
        THEN <<NoticeBatch(ctx, mode)>>
        ELSE Closed(ctx,
                    FailedSection(ctx,
                        NewTitlesSection(ctx,
                            StatsSection(ctx, Started(ctx)))))

(***************************************************************************)
(* A caller of split_content_into_batches: a send_to_* function with the   *)
(* report prepare_report_data made, its channel and the budget of the      *)
(* channel.                                                                *)
(***************************************************************************)
\* the largest max_bytes of the model
MaxBytes == 400

\* one element of stat["titles"] or of source["titles"]
Shown(title, is_new) ==
    [title |-> title, source_name |-> "Alpha", time_display |-> "", count |-> 1,
     ranks |-> <<3>>, rank_threshold |-> 2, url |-> "", mobile_url |-> "",
     is_new |-> is_new]

\* a title seen three times, with a link
Linked(title) ==
    [Shown(title, TRUE) EXCEPT !.time_display = "09:01 ~ 09:03", !.count = 3,
                               !.ranks = <<1, 4>>, !.url = "http://u/1"]

StatOf(word, titles) ==
    [word |-> word, count |-> Len(titles), percentage |-> 0, titles |-> titles]

SourceOf(source_id, source_name, titles) ==
    [source_id |-> source_id, source_name |-> source_name, titles |-> titles]

\* n titles "T1", "T2", ...
Numbered(n) == [j \in 1..n |-> Shown("T" \o str(j), FALSE)]

\* report_data: what prepare_report_data returns
Reports ==
    {ReportData(<<>>, <<>>, <<>>),
     ReportData(<<StatOf("x", <<Shown("X", FALSE)>>)>>, <<>>, <<>>),
     ReportData(<<StatOf("x", <<Shown("X", TRUE), Shown("a longer title", FALSE),
                                 Linked("Q & A")>>)>>, <<>>, <<>>),
     ReportData(<<StatOf("x", <<Shown("X", FALSE), Shown("Y", FALSE)>>),
                  StatOf("y z", <<Shown("Z", TRUE)>>)>>, <<>>, <<>>),
     ReportData(<<StatOf("x", Numbered(5)), StatOf("y", Numbered(10))>>, <<>>, <<>>),
     ReportData(<<>>,
                <<SourceOf("A", "Alpha", <<Shown("X", TRUE), Shown("Y", TRUE)>>),
                  SourceOf("B", "Beta", <<Shown("Z", TRUE)>>)>>,
                <<>>),
     ReportData(<<>>, <<SourceOf("A", "Alpha", <<Shown("X", TRUE)>>)>>, <<"B">>),
     ReportData(<<>>, <<>>, <<"A", "B">>),
     ReportData(<<StatOf("x", <<Shown("X", TRUE), Shown("Y", FALSE)>>)>>,
                <<SourceOf("A", "Alpha", <<Shown("X", TRUE), Shown("Z", TRUE)>>)>>,
                <<"B">>),
     ReportData(<<StatOf("x", <<Shown("X", TRUE)>>),
                  StatOf("y", <<Shown("Y", FALSE), Shown("Z", TRUE)>>)>>,
                <<SourceOf("A", "Alpha", <<Shown("X", TRUE)>>),
                  SourceOf("B", "Beta", <<Shown("Z", TRUE), Shown("W", TRUE)>>)>>,
                <<"C", "D">>)}

\* update_info: None, or the versions of a newer release
UpdateInfos == {NoUpdate, [remote_version |-> "3.0.1", current_version |-> "3.0.0"]}

\* the modes a report is sent in: the notice of a report without content
\* is the only text that depends on the mode
SendModes(report_data) ==
    IF report_data = ReportData(<<>>, <<>>, <<>>) THEN Modes ELSE {"daily"}

InitBatch ==
    /\ NoDay
    /\ NoCalls
    /\ \E r \in Reports, f \in Platforms, u \in UpdateInfos, b \in 1..MaxBytes :
           \E m \in SendModes(r) :
               split = [report_data |-> r, format_type |-> f, update_info |-> u,
                        max_bytes |-> b, mode |-> m]
    /\ split_pc = "called"
    /\ batches = <<>>
    /\ printed = <<>>
    /\ posted = <<>>
    /\ NoPushes

\* the function returns the batches; it prints nothing and logs nothing
SplitContentIntoBatches ==
    /\ split_pc = "called"
    /\ batches' = split_content_into_batches(split.report_data, split.format_type,
                                             split.update_info, split.max_bytes,
                                             split.mode, strftime(clock))
    /\ split_pc' = "returned"
    /\ UNCHANGED <<day_vars, call_vars, weight_vars, split, printed, posted, push_vars, fetch_vars>>

\* s.replace(old, new), old not empty
RECURSIVE replace(_, _, _)
replace(s, old, new) ==
    IF ~Contains(s, old) THEN s
    ELSE LET i == SetMin(Occurrences(s, old))
         IN  SubSeq(s, 1, i - 1) \o new
             \o replace(SubSeq(s, i + Len(old), Len(s)), old, new)

\* the title of the stats section that send_to_feishu and send_to_dingtalk
\* look for
StatsTitle == BarChart \o " **Trending Keywords Stats**"

\* batch_header of the senders, for batch i of n
batch_header(format_type, i, n) ==
    IF format_type = "telegram"
    THEN "<b>[Batch " \o str(i) \o "/" \o str(n) \o "]</b>\n\n"
    ELSE "**[Batch " \o str(i) \o "/" \o str(n) \o "]**\n\n"

\* "Add batch identifier": the text a sender posts for batch i of n
WithBatchIdentifier(format_type, batch_content, i, n) ==
    IF n <= 1 THEN batch_content
    ELSE IF format_type \in {"feishu", "dingtalk"} /\ Contains(batch_content, StatsTitle)
    THEN replace(batch_content, StatsTitle \o "\n\n",
                 StatsTitle \o " " \o batch_header(format_type, i, n)
                 \o (IF format_type = "dingtalk" THEN "\n\n" ELSE ""))
    ELSE batch_header(format_type, i, n) \o batch_content

\* the string a batch is
RECURSIVE TextOf(_)
TextOf(pieces) ==
    IF pieces = <<>> THEN "" ELSE Head(pieces).text \o TextOf(Tail(pieces))

\* the order in which a sender posts n batches: send_to_ntfy posts the last
\* batch first
PostingOrder(format_type, n) ==
    [k \in 1..n |-> IF format_type = "ntfy" THEN n - k + 1 ELSE k]

\* what a sender posts, request by request, when no request fails: the
\* number of the batch and the text
Posts(format_type, returned) ==
    [k \in 1..Len(returned) |->
        LET i == PostingOrder(format_type, Len(returned))[k]
        IN  [batch |-> i,
             text |-> WithBatchIdentifier(format_type, TextOf(returned[i]), i,
                                          Len(returned))]]

\* send_to_feishu, send_to_dingtalk, send_to_wework, send_to_telegram or
\* send_to_ntfy, by format_type: the report is split and each batch is
\* posted with its identifier
SendToChannel ==
    /\ split_pc = "called"
    /\ batches' = split_content_into_batches(split.report_data, split.format_type,
                                             split.update_info, split.max_bytes,
                                             split.mode, strftime(clock))
    /\ posted' = Posts(split.format_type, batches')
    /\ split_pc' = "sent"
    /\ UNCHANGED <<day_vars, call_vars, weight_vars, split, printed, push_vars, fetch_vars>>

NextBatch == SplitContentIntoBatches \/ SendToChannel

SpecBatch == InitBatch /\ [][NextBatch]_vars

(***************************************************************************)
(* send_to_notifications and PushRecordManager.  A time is the day and the *)
(* minute of the modelled hour.  The record files of output/.push_records  *)
(* are the set of the days they are named after: record_push is their only *)
(* writer and writes "pushed": true.                                       *)
(***************************************************************************)
MaxDay == 2

\* the minutes of the modelled hour at which a call is made
PushMinutes == 0..4

\* f"{n:02d}"
Pad2(n) == IF n < 10 THEN "0" \o str(n) ELSE str(n)

\* now.strftime("%H:%M")
HourMinute(now) == "09:" \o Pad2(now.minute)

\* normalize_time of is_in_time_range: "HH:MM" of a string that strips to
\* hour:minute, any other string as it is
normalize_time(time_str) ==
    LET stripped == Strip(time_str)
    IN  IF Cardinality(Occurrences(stripped, ":")) # 1 THEN time_str
        ELSE LET parts == Split1(stripped, ":")
             IN  IF ~isdigit(parts[1]) \/ ~isdigit(parts[2]) THEN time_str
                 ELSE IF int(parts[1]) \in 0..23 /\ int(parts[2]) \in 0..59
                      THEN Pad2(int(parts[1])) \o ":" \o Pad2(int(parts[2]))
                      ELSE time_str

\* a <= b, on strings
StrLessOrEqual(a, b) == a = b \/ StrLess(a, b)

\* PushRecordManager.is_in_time_range
is_in_time_range(now, start_time, end_time) ==
    /\ StrLessOrEqual(normalize_time(start_time), normalize_time(HourMinute(now)))
    /\ StrLessOrEqual(normalize_time(HourMinute(now)), normalize_time(end_time))

\* PushRecordManager.cleanup_old_records, which __init__ calls
cleanup_old_records(records, now, retention_days) ==
    {d \in records : ~(now.day - d > retention_days)}

\* a manager that finds no record
NeverPushed(records, now) == FALSE

\* PushRecordManager.has_pushed_today()
has_pushed_today(records, now) == now.day \in records

\* PushRecordManager.record_push: the file is written unless open() fails
record_push(records, now, writable) ==
    IF writable THEN records \cup {now.day} ELSE records

\* the channels in the order send_to_notifications sends to them
ChannelOrder == <<"feishu", "dingtalk", "wework", "telegram", "ntfy", "email">>

\* the configured channels from the i-th of the order on
RECURSIVE ChannelsFrom(_, _)
ChannelsFrom(channels, i) ==
    IF i > Len(ChannelOrder) THEN <<>>
    ELSE (IF ChannelOrder[i] \in channels THEN <<ChannelOrder[i]>> ELSE <<>>)
         \o ChannelsFrom(channels, i + 1)

\* "Daily limit check" at the end of send_to_notifications: the conditions
\* are joined by "and", and the last one calls has_pushed_today with an
\* argument the method does not take
DailyLimitCheck(config) ==
    IF config.ENABLED /\ config.ONCE_PER_DAY THEN "TypeError" ELSE "returned"

\* the early "return results" of the push window check
Skipped(records) ==
    [sent |-> <<>>, results |-> EmptyDict, outcome |-> "returned",
     recorded |-> FALSE, records |-> records]

\* one call: the channels it sent to, its result map, how it ended, whether
\* it wrote the record of the day, and the records after it; answers is
\* what the sender of each channel returns
send_to_notifications(config, now, records, answers, writable) ==
    LET cleaned == cleanup_old_records(records, now, config.RECORD_RETENTION_DAYS)
        any_success == \E c \in config.channels : answers[c]
        recording == config.ENABLED /\ config.ONCE_PER_DAY /\ any_success
    IN  IF config.ENABLED /\ ~is_in_time_range(now, config.START, config.END)
        THEN Skipped(cleaned)
        ELSE IF config.ENABLED /\ config.ONCE_PER_DAY /\ has_pushed_today(cleaned, now)
        THEN Skipped(cleaned)
        ELSE [sent |-> ChannelsFrom(config.channels, 1),
              results |-> [c \in config.channels |-> answers[c]],
              outcome |-> DailyLimitCheck(config),
              recorded |-> recording /\ writable,
              records |-> IF recording THEN record_push(cleaned, now, writable)
                          ELSE cleaned]

\* the push windows of the configuration: a range of the modelled hour, the
\* same written without leading zeros and with blanks, a range that ends
\* before it starts, and a start that is no time
Windows == {<<"09:01", "09:03">>, <<" 9:1", "9:03 ">>, <<"09:03", "09:01">>, <<"9h", "09:03">>}

\* the channels that are configured
ChannelSets == {{}, {"feishu"}, {"dingtalk", "ntfy"}}

\* the configurations: the window enabled, with each time range, and the
\* window not enabled, where the time range is not read
PushConfigs ==
    {[ENABLED |-> TRUE, ONCE_PER_DAY |-> o, START |-> w[1], END |-> w[2],
      RECORD_RETENTION_DAYS |-> r, channels |-> c] :
        o \in BOOLEAN, w \in Windows, r \in {0, 7}, c \in ChannelSets}
    \cup {[NoPushConfig EXCEPT !.ONCE_PER_DAY = o, !.channels = c] :
             o \in BOOLEAN, c \in ChannelSets}

InitPush ==
    /\ NoDay
    /\ NoCalls
    /\ NoBatches
    /\ push_config \in PushConfigs
    /\ today = [day |-> 1, minute |-> 0]
    /\ push_records = {}
    /\ pushed = NoPush
    /\ fetching = NoFetch
    /\ crawling = NoCrawling

\* the time of the next call: later on the day, or on the next day
Later(now) ==
    {t \in [day : {d \in {now.day, now.day + 1} : d <= MaxDay}, minute : PushMinutes] :
        t.day > now.day \/ t.minute >= now.minute}

\* a run calls send_to_notifications at some later time
SendToNotifications ==
    /\ \E now \in Later(today), answers \in [push_config.channels -> BOOLEAN],
          writable \in BOOLEAN :
          LET call_made == send_to_notifications(push_config, now, push_records,
                                                 answers, writable)
          IN  /\ today' = now
              /\ push_records' = call_made.records
              /\ pushed' = [sent |-> call_made.sent, results |-> call_made.results,
                            outcome |-> call_made.outcome,
                            recorded |-> call_made.recorded]
    /\ UNCHANGED <<day_vars, call_vars, weight_vars, batch_vars, push_config, fetch_vars>>

NextPush == SendToNotifications

SpecPush == InitPush /\ [][NextPush]_vars

(***************************************************************************)
(* DataFetcher.fetch_data, one request of its loop a step, and the call of *)
(* DataFetcher.crawl_websites around it.  What a request is answered with  *)
(* is [kind, items]: the kind is the "status" of the JSON text, or         *)
(* "http_error" when requests.get or raise_for_status raises, or           *)
(* "not_json" when json.loads does.  data is None, or the response text.   *)
(***************************************************************************)
\* max_retries: the default, which crawl_websites calls with, and the
\* smaller limits of a direct call
RetryLimits == {0, 1, 2}
DefaultRetries == SetMax(RetryLimits)

\* an item without the key "title"
Untitled == [has_title |-> FALSE, title |-> "", url |-> "", mobileUrl |-> "", hover |-> ""]

\* the "items" of a response
ItemLists ==
    {<<>>, <<Plain("X")>>, <<Plain("X"), Plain("Y")>>, <<Plain("X"), Untitled>>}

\* what a request may be answered with
RequestAnswers ==
    {[kind |-> k, items |-> <<>>] : k \in {"http_error", "not_json", "forbidden"}}
    \cup {[kind |-> k, items |-> items] : k \in {"success", "cache"}, items \in ItemLists}

\* the answer passes "status not in ['success', 'cache']"
Succeeds(answer) == answer.kind \in {"success", "cache"}

None == [is_none |-> TRUE]
DataText(answer) == [is_none |-> FALSE, items |-> answer.items]

\* fetch_data is called
StartFetch(id_value, max_retries) ==
    [id_value |-> id_value, max_retries |-> max_retries, retries |-> 0,
     answers |-> <<>>, pc |-> (IF 0 <= max_retries THEN "requesting" ELSE "returned"),
     data |-> None]

\* a loop that does not count its failures
RetriesKept(retries) == retries

\* "retries += 1"
RetriesAfterFailure(retries) == retries + 1

\* one turn of "while retries <= max_retries" with the answer of its request
AfterRequest(call_state, answer) ==
    IF Succeeds(answer)
    THEN [call_state EXCEPT !.answers = Append(@, answer), !.pc = "returned",
                            !.data = DataText(answer)]
    ELSE [call_state EXCEPT !.answers = Append(@, answer),
                            !.retries = RetriesAfterFailure(@),
                            !.pc = IF RetriesAfterFailure(call_state.retries)
                                        <= call_state.max_retries
                                   THEN "requesting" ELSE "returned"]

\* the ids_list crawl_websites is called with
IdLists == {<<>>, <<"A">>, <<"A", "B">>, <<"B", "A">>}

\* crawl_websites is called: it calls fetch_data for the first id
StartCrawl(ids_list) ==
    [ids_list |-> ids_list, i |-> 1, results |-> EmptyDict, id_to_name |-> EmptyDict,
     failed_ids |-> <<>>, pc |-> (IF ids_list = <<>> THEN "returned" ELSE "fetching")]

InitFetch ==
    /\ NoDay
    /\ NoCalls
    /\ NoBatches
    /\ push_config = NoPushConfig
    /\ today = [day |-> 1, minute |-> 0]
    /\ push_records = {}
    /\ pushed = NoPush
    /\ \/ /\ crawling = NoCrawling
          /\ \E id \in Sources, m \in RetryLimits : fetching = StartFetch(id, m)
       \/ \E ids_list \in IdLists :
             /\ crawling = StartCrawl(ids_list)
             /\ fetching = IF ids_list = <<>> THEN NoFetch
                           ELSE StartFetch(ids_list[1], DefaultRetries)

\* fetch_data makes a request and looks at the answer
Request ==
    /\ fetching.pc = "requesting"
    /\ \E answer \in RequestAnswers : fetching' = AfterRequest(fetching, answer)
    /\ UNCHANGED <<day_vars, call_vars, weight_vars, batch_vars, push_vars, crawling>>

\* the response of fetch_data as the loop body of crawl_websites reads it
ResponseOf(data) ==
    IF data.is_none THEN [ok |-> FALSE, items |-> <<>>]
    ELSE [ok |-> TRUE, items |-> data.items]

\* crawl_websites, after fetch_data returned: the rest of the loop body for
\* the id, then fetch_data for the next id or the return
CrawlNext ==
    /\ crawling.pc = "fetching"
    /\ fetching.pc = "returned"
    /\ LET after == CrawlOne([results |-> crawling.results,
                              id_to_name |-> crawling.id_to_name,
                              failed_ids |-> crawling.failed_ids],
                             crawling.ids_list[crawling.i], ResponseOf(fetching.data))
           last == crawling.i = Len(crawling.ids_list)
       IN  /\ crawling' = [crawling EXCEPT !.results = after.results,
                                           !.id_to_name = after.id_to_name,
                                           !.failed_ids = after.failed_ids,
                                           !.i = @ + 1,
                                           !.pc = IF last THEN "returned" ELSE "fetching"]
           /\ fetching' = IF last THEN fetching
                          ELSE StartFetch(crawling.ids_list[crawling.i + 1],
                                          DefaultRetries)
    /\ UNCHANGED <<day_vars, call_vars, weight_vars, batch_vars, push_vars>>

NextFetch == Request \/ CrawlNext

\* every request ends, by an answer, an error or the timeout of 10 seconds,
\* and the code between two requests has no loop of its own
SpecFetch == InitFetch /\ [][NextFetch]_vars /\ WF_vars(Request) /\ WF_vars(CrawlNext)

(***************************************************************************)
(* What the properties read off a state: the snapshots of the day as the   *)
(* ledger builder receives them.                                           *)
(***************************************************************************)
\* the observation maps of the files, in file order, for the current platforms
RECURSIVE SnapshotsFrom(_)
SnapshotsFrom(i) ==
    IF i > Len(files) THEN <<>>
    ELSE <<FileTitles(files[i], PlatformFilter(platforms))>> \o SnapshotsFrom(i + 1)

Snapshots == SnapshotsFrom(1)

\* title_info after each prefix of the files is folded: 0 files at index 1
RECURSIVE LedgersFrom(_)
LedgersFrom(k) ==
    IF k > Len(files) THEN <<>>
    ELSE <<read_all_today_titles(SubSeq(files, 1, k),
                                 PlatformFilter(platforms)).title_info>>
         \o LedgersFrom(k + 1)

Ledgers == <<EmptyDict>> \o LedgersFrom(1)

\* title t is observed for source s in the observation map snap
Appears(snap, s, t) == s \in DOMAIN snap /\ t \in DOMAIN snap[s]

\* the snapshots in which (s, t) is observed, among the first k
SeenIn(snaps, k, s, t) == {i \in 1..k : Appears(snaps[i], s, t)}

\* every (source, title) pair of the snapshots
Pairs(snaps) ==
    UNION {UNION {{<<s, t>> : t \in DOMAIN snaps[i][s]} : s \in DOMAIN snaps[i]} :
           i \in 1..Len(snaps)}

HasEntry(ti, s, t) == s \in DOMAIN ti /\ t \in DOMAIN ti[s]

CountOf(ti, s, t) == IF HasEntry(ti, s, t) THEN ti[s][t].count ELSE 0

\* the run is over: loaded holds the ledger of the directory
RunDone == pc = "idle" /\ files # <<>>

(***************************************************************************)
(* C1: the count of a ledger entry is the number of snapshots in which the *)
(* title appears for that source: folding one more snapshot raises it by 1 *)
(* when the title is in the snapshot and by 0 otherwise, however many      *)
(* lines of the snapshot repeat the title.                                 *)
(***************************************************************************)
C1_CountIsSnapshotCount ==
    RunDone =>
        LET snaps == Snapshots
            ledgers == Ledgers
            pairs == Pairs(snaps)
        IN  /\ loaded.title_info = ledgers[Len(files) + 1]
            /\ \A s \in DOMAIN loaded.title_info :
                  \A t \in DOMAIN loaded.title_info[s] : <<s, t>> \in pairs
            /\ \A k \in 1..Len(files) : \A p \in pairs :
                  /\ CountOf(ledgers[k + 1], p[1], p[2])
                        = Cardinality(SeenIn(snaps, k, p[1], p[2]))
                  /\ CountOf(ledgers[k + 1], p[1], p[2])
                        = CountOf(ledgers[k], p[1], p[2])
                          + (IF Appears(snaps[k], p[1], p[2]) THEN 1 ELSE 0)

\* the lines of file i that carry title t in a block of source s
LinesOf(i, s, t) ==
    {n \in 2..Len(files[i].lines) :
        /\ files[i].lines[n] # ""
        /\ ParseLine(files[i].lines[n]).title = t
        /\ \E h \in 1..(n - 1) :
              /\ ParseHeader(files[i].lines[h]).source_id = s
              /\ (h = 1 \/ files[i].lines[h - 1] = "")
              /\ \A m \in h..n : files[i].lines[m] # ""}

\* a title seen in two of three snapshots, one of which lists it twice
C1_Witness ==
    /\ RunDone
    /\ Len(files) = 3
    /\ \E p \in Pairs(Snapshots) :
          /\ CountOf(loaded.title_info, p[1], p[2]) = 2
          /\ \E i \in 1..3 : Cardinality(LinesOf(i, p[1], p[2])) = 2

(***************************************************************************)
(* C2: folding the same snapshot (same time_info, same content) twice      *)
(* leaves the count of every entry as it was after folding it once.        *)
(***************************************************************************)
\* the ledger after the calls, from the empty ledger
RECURSIVE FoldCalls(_, _)
FoldCalls(calls, acc) ==
    IF calls = <<>> THEN acc
    ELSE FoldCalls(Tail(calls),
             process_source_data(Head(calls).source_id, Head(calls).title_data,
                                 Head(calls).time_info,
                                 acc.all_results, acc.title_info))

\* the last call repeats the call before it
LastCallRepeated ==
    /\ Len(folded) >= 2
    /\ folded[Len(folded)] = folded[Len(folded) - 1]

C2_MergeIdempotent ==
    LastCallRepeated =>
        \A s \in DOMAIN accum.title_info : \A t \in DOMAIN accum.title_info[s] :
            accum.title_info[s][t].count
                = CountOf(FoldCalls(SubSeq(folded, 1, Len(folded) - 1),
                                    NoLedger).title_info, s, t)

(***************************************************************************)
(* C3: after any sequence of merges, including observations whose own rank *)
(* list repeats a value, the ranks of an entry hold no value twice and     *)
(* list the values in the order in which each was first observed.          *)
(***************************************************************************)
\* the ranks observed for (s, t) by the calls, in call order
RECURSIVE ObservedRanks(_, _, _)
ObservedRanks(calls, s, t) ==
    IF calls = <<>> THEN <<>>
    ELSE (IF Head(calls).source_id = s /\ t \in DOMAIN Head(calls).title_data
          THEN Head(calls).title_data[t].ranks ELSE <<>>)
         \o ObservedRanks(Tail(calls), s, t)

\* the values of a list, each at its first position
RECURSIVE FirstSeen(_, _)
FirstSeen(values, acc) ==
    IF values = <<>> THEN acc
    ELSE FirstSeen(Tail(values),
             IF \E i \in 1..Len(acc) : acc[i] = Head(values) THEN acc
             ELSE Append(acc, Head(values)))

C3_RanksFirstObserved ==
    \A s \in DOMAIN accum.title_info : \A t \in DOMAIN accum.title_info[s] :
        accum.title_info[s][t].ranks = FirstSeen(ObservedRanks(folded, s, t), <<>>)

(***************************************************************************)
(* C4: url, mobileUrl and summary of a ledger entry are filled once: at    *)
(* every point of the fold each is the first non-empty value observed for  *)
(* the title, or empty when none was observed, and once non-empty no later *)
(* merge changes it.                                                       *)
(***************************************************************************)
FillOnceFields == {"url", "mobileUrl", "summary"}

FieldOf(e, f) ==
    CASE f = "url" -> e.url
      [] f = "mobileUrl" -> e.mobileUrl
      [] f = "summary" -> e.summary

\* the snapshots among the first k that observe a non-empty f for (s, t)
FilledIn(snaps, k, s, t, f) ==
    {i \in SeenIn(snaps, k, s, t) : FieldOf(snaps[i][s][t], f) # ""}

FirstNonEmpty(snaps, k, s, t, f) ==
    IF FilledIn(snaps, k, s, t, f) = {} THEN ""
    ELSE FieldOf(snaps[SetMin(FilledIn(snaps, k, s, t, f))][s][t], f)

C4_FilledOnce ==
    RunDone =>
        LET snaps == Snapshots
            ledgers == Ledgers
            pairs == Pairs(snaps)
        IN  /\ loaded.title_info = ledgers[Len(files) + 1]
            /\ \A k \in 1..Len(files) : \A p \in pairs : \A f \in FillOnceFields :
                  HasEntry(ledgers[k + 1], p[1], p[2]) =>
                      /\ FieldOf(ledgers[k + 1][p[1]][p[2]], f)
                            = FirstNonEmpty(snaps, k, p[1], p[2], f)
                      /\ (/\ HasEntry(ledgers[k], p[1], p[2])
                          /\ FieldOf(ledgers[k][p[1]][p[2]], f) # "")
                         => FieldOf(ledgers[k + 1][p[1]][p[2]], f)
                                = FieldOf(ledgers[k][p[1]][p[2]], f)

\* a url first observed empty, then filled, then observed with another value
C4_Witness ==
    /\ RunDone
    /\ Len(files) = 3
    /\ \E p \in Pairs(Snapshots) :
          /\ SeenIn(Snapshots, 3, p[1], p[2]) = {1, 2, 3}
          /\ Snapshots[1][p[1]][p[2]].url = ""
          /\ Snapshots[2][p[1]][p[2]].url # ""
          /\ Snapshots[3][p[1]][p[2]].url \notin {"", Snapshots[2][p[1]][p[2]].url}
          /\ loaded.title_info[p[1]][p[2]].url = Snapshots[2][p[1]][p[2]].url

(***************************************************************************)
(* C5: first_time of an entry is the identifier of the earliest snapshot   *)
(* in which the title appeared and never changes once the entry exists;    *)
(* last_time is that of the latest such snapshot; first_time <= last_time; *)
(* an entry just created has first_time = last_time and count 1.           *)
(***************************************************************************)
C5_FirstAndLastTime ==
    RunDone =>
        LET snaps == Snapshots
            ledgers == Ledgers
            pairs == Pairs(snaps)
        IN  /\ loaded.title_info = ledgers[Len(files) + 1]
            /\ \A k \in 1..Len(files) : \A p \in pairs :
                  HasEntry(ledgers[k + 1], p[1], p[2]) =>
                      LET e == ledgers[k + 1][p[1]][p[2]]
                          seen == SeenIn(snaps, k, p[1], p[2])
                      IN  /\ e.first_time = files[SetMin(seen)].stem
                          /\ e.last_time = files[SetMax(seen)].stem
                          /\ e.first_time <= e.last_time
                          /\ HasEntry(ledgers[k], p[1], p[2])
                                => e.first_time = ledgers[k][p[1]][p[2]].first_time
                          /\ ~HasEntry(ledgers[k], p[1], p[2])
                                => /\ e.first_time = files[k].stem
                                   /\ e.last_time = files[k].stem
                                   /\ e.count = 1

\* an entry seen in the first and the third snapshot, not in the second
C5_Witness ==
    /\ RunDone
    /\ Len(files) = 3
    /\ \E p \in Pairs(Snapshots) :
          /\ SeenIn(Snapshots, 3, p[1], p[2]) = {1, 3}
          /\ loaded.title_info[p[1]][p[2]].first_time = files[1].stem
          /\ loaded.title_info[p[1]][p[2]].last_time = files[3].stem
          /\ files[1].stem < files[3].stem

(***************************************************************************)
(* C6: when a snapshot lists a title more than once for one source, only   *)
(* the first occurrence contributes its rank, url, mobileUrl and summary   *)
(* to what the fold receives for that snapshot.                            *)
(***************************************************************************)
C6_FirstOccurrenceOnly ==
    \A i \in 1..Len(files) :
        LET snap == FileTitles(files[i], PlatformFilter(platforms))
        IN  \A s \in DOMAIN snap : \A t \in DOMAIN snap[s] :
                LinesOf(i, s, t) # {} =>
                    snap[s][t] = ParseLine(files[i].lines[SetMin(LinesOf(i, s, t))]).info

(***************************************************************************)
(* C7: with an allow-list of sources configured, the ledger and the        *)
(* novelty delta hold no source outside it, and what they hold for the     *)
(* allowed sources is what they would hold had the blocks of the other     *)
(* sources been removed from the snapshots before the fold.                *)
(***************************************************************************)
\* a section that is the block of a source outside allowed
BlockOfOther(section, allowed) ==
    /\ ~SectionSkipped(section)
    /\ ParseHeader(section[1]).source_id \notin allowed

\* the lines of the sections, without the blocks of sources outside allowed
RECURSIVE JoinAllowed(_, _)
JoinAllowed(sections, allowed) ==
    IF sections = <<>> THEN <<>>
    ELSE IF BlockOfOther(Head(sections), allowed)
         THEN JoinAllowed(Tail(sections), allowed)
         ELSE Head(sections) \o <<"">> \o JoinAllowed(Tail(sections), allowed)

\* the directory without the blocks of sources outside allowed
RECURSIVE WithoutBlocks(_, _)
WithoutBlocks(dir, allowed) ==
    IF dir = <<>> THEN <<>>
    ELSE <<[stem |-> Head(dir).stem,
            lines |-> JoinAllowed(SplitSections(Head(dir).lines, <<>>), allowed)]>>
         \o WithoutBlocks(Tail(dir), allowed)

C7_AllowList ==
    RunDone =>
        LET stripped == WithoutBlocks(files, platforms)
        IN  /\ DOMAIN loaded.all_results \subseteq platforms
            /\ DOMAIN loaded.title_info \subseteq platforms
            /\ DOMAIN loaded.new_titles \subseteq platforms
            /\ DOMAIN new_titles \subseteq platforms
            /\ loaded.title_info
                  = read_all_today_titles(stripped, NoPlatformFilter).title_info
            /\ loaded.new_titles
                  = detect_latest_new_titles(stripped, NoPlatformFilter)

\* a file holds a block of B, only A is allowed, and A has an entry and a
\* new title
C7_Witness ==
    /\ RunDone
    /\ platforms = {"A"}
    /\ \E i \in 1..Len(files) :
          "B" \in DOMAIN parse_file_titles(files[i].lines).titles_by_id
    /\ "A" \in DOMAIN loaded.title_info
    /\ "A" \in DOMAIN loaded.new_titles

(***************************************************************************)
(* C8: the novelty delta holds, per source, exactly the titles present in  *)
(* the latest snapshot and in no earlier snapshot of the day for the same  *)
(* source, with their observations of the latest snapshot; with fewer than *)
(* two snapshots it is empty.                                              *)
(***************************************************************************)
\* the titles of s in the last of snaps that no earlier one holds for s
NewIn(snaps, s) ==
    IF Len(snaps) < 2 \/ s \notin DOMAIN snaps[Len(snaps)] THEN {}
    ELSE {t \in DOMAIN snaps[Len(snaps)][s] :
             \A i \in 1..(Len(snaps) - 1) : ~Appears(snaps[i], s, t)}

C8_NoveltyDelta ==
    RunDone =>
        LET snaps == Snapshots
            delta == loaded.new_titles
        IN  /\ Len(files) < 2 => delta = EmptyDict
            /\ \A s \in Sources \cup DOMAIN delta :
                  /\ s \in DOMAIN delta <=> NewIn(snaps, s) # {}
                  /\ s \in DOMAIN delta =>
                        /\ DOMAIN delta[s] = NewIn(snaps, s)
                        /\ \A t \in DOMAIN delta[s] :
                              delta[s][t] = snaps[Len(snaps)][s][t]

\* a title new for one source that an earlier snapshot holds for another
C8_Witness ==
    /\ RunDone
    /\ \E s \in DOMAIN loaded.new_titles : \E t \in DOMAIN loaded.new_titles[s] :
          \E o \in Sources \ {s} : \E i \in 1..(Len(files) - 1) :
              Appears(Snapshots[i], o, t)

(***************************************************************************)
(* C9: count_word_frequency places a title in at most one Stat, and that   *)
(* Stat is the one of the first group, in configured order, whose required *)
(* words are all in the title and, if it has normal words, at least one of *)
(* them is.                                                                *)
(***************************************************************************)
\* the call has returned
Counted == stats # NoStats

ConfiguredGroups == load_frequency_words(call.frequency_words).word_groups
ConfiguredFilters == load_frequency_words(call.frequency_words).filter_words

\* word is in title, whatever the case of the letters
InTitle(word, title) == Contains(lower(title), lower(word))

\* the title has all required words of the group and, if the group has
\* normal words, one of them
Satisfies(group, title) ==
    /\ \A i \in 1..Len(group.required) : InTitle(group.required[i], title)
    /\ \/ group.normal = <<>>
       \/ \E i \in 1..Len(group.normal) : InTitle(group.normal[i], title)

SourceName(s) ==
    IF HasKey(call.id_to_name, s) THEN ValueAt(call.id_to_name, s) ELSE s

\* where the title of source s stands in stats: <<stat, position>>
Placements(s, t) ==
    UNION {{<<g, i>> : i \in {j \in 1..Len(stats.stats[g].titles) :
                                 /\ stats.stats[g].titles[j].title = t
                                 /\ stats.stats[g].titles[j].source_name = SourceName(s)}} :
           g \in 1..Len(stats.stats)}

\* the titles of source s that the call was given
TitlesGiven(s) ==
    IF HasKey(call.results, s)
    THEN {ValueAt(call.results, s)[i].key : i \in 1..Len(ValueAt(call.results, s))}
    ELSE {}

C9_FirstGroupOnly ==
    Counted =>
        \A t \in MatchTitles :
            /\ \A s \in Sources : Cardinality(Placements(s, t)) <= 1
            /\ \A s \in Sources, o \in Sources :
                  \A p \in Placements(s, t), q \in Placements(o, t) : p[1] = q[1]
            /\ \A s \in Sources : \A p \in Placements(s, t) :
                  ConfiguredGroups # <<>> =>
                      \E i \in 1..Len(ConfiguredGroups) :
                          /\ Satisfies(ConfiguredGroups[i], t)
                          /\ \A j \in 1..(i - 1) : ~Satisfies(ConfiguredGroups[j], t)
                          /\ stats.stats[p[1]].word = ConfiguredGroups[i].group_key

\* a title that satisfies two groups and stands in a Stat
C9_Witness ==
    /\ Counted
    /\ \E s \in Sources, t \in MatchTitles :
          /\ Placements(s, t) # {}
          /\ Cardinality({i \in 1..Len(ConfiguredGroups) :
                             Satisfies(ConfiguredGroups[i], t)}) >= 2

(***************************************************************************)
(* C10: with at least one word group configured, a title that contains a   *)
(* filter word, whatever the case of the letters, matches no group and is  *)
(* in no Stat, even if it satisfies a group.                               *)
(***************************************************************************)
HitByFilter(t) ==
    \E i \in 1..Len(ConfiguredFilters) : InTitle(ConfiguredFilters[i], t)

C10_FilterWordExcludes ==
    (Counted /\ ConfiguredGroups # <<>>) =>
        \A t \in MatchTitles :
            HitByFilter(t) =>
                /\ ~matches_word_groups(t, ConfiguredGroups, ConfiguredFilters)
                /\ \A s \in Sources : Placements(s, t) = {}

\* a title given in daily mode that satisfies a group and holds a filter
\* word, next to a title that stands in a Stat
C10_Witness ==
    /\ Counted
    /\ call.mode = "daily"
    /\ ConfiguredGroups # <<>>
    /\ \E s \in Sources : \E t \in TitlesGiven(s), u \in TitlesGiven(s) :
          /\ HitByFilter(t)
          /\ \E i \in 1..Len(ConfiguredGroups) : Satisfies(ConfiguredGroups[i], t)
          /\ Placements(s, t) = {}
          /\ Placements(s, u) # {}

(***************************************************************************)
(* C11: when no word group is configured, every title of the titles the    *)
(* mode selects, also one that holds a configured filter word, stands once *)
(* in one single Stat, "All News", whose count is the number of those      *)
(* titles.                                                                 *)
(***************************************************************************)
\* the titles the mode selects of the call's input
ToProcess ==
    ResultsToProcess(call.results, call.title_info, call.new_titles, call.mode,
                     call.is_first_today)

\* the titles of source s among them
TitlesToProcess(s) ==
    IF HasKey(ToProcess, s)
    THEN {ValueAt(ToProcess, s)[i].key : i \in 1..Len(ValueAt(ToProcess, s))}
    ELSE {}

NumberToProcess == Cardinality({p \in Sources \X MatchTitles : p[2] \in TitlesToProcess(p[1])})

C11_CatchAll ==
    (Counted /\ ConfiguredGroups = <<>>) =>
        /\ Len(stats.stats) = 1
        /\ stats.stats[1].word = "All News"
        /\ stats.stats[1].count = NumberToProcess
        /\ Len(stats.stats[1].titles) = NumberToProcess
        /\ \A s \in Sources : \A t \in TitlesToProcess(s) :
              Cardinality(Placements(s, t)) = 1

\* no group but a filter word configured, and two titles selected, one of
\* them holding the filter word
C11_Witness ==
    /\ Counted
    /\ ConfiguredGroups = <<>>
    /\ NumberToProcess >= 2
    /\ stats.stats[1].count = NumberToProcess
    /\ \E s \in Sources : \E t \in TitlesToProcess(s) :
          /\ HitByFilter(t)
          /\ Placements(s, t) # {}

(***************************************************************************)
(* C13: in every Stat count_word_frequency returns, a title stands before  *)
(* another only if its weight is not lower; if the weights are equal, only *)
(* if its minimum rank is not higher; if those are equal too, only if its  *)
(* count is not lower.  The Stats stand by descending count.               *)
(***************************************************************************)
\* the weight of a title of a Stat, as the call weighs it
Weight(e) == calculate_news_weight(e, call.rank_threshold, call.weight_config)

SameWeight(a, b) == ~WeightLess(Weight(a), Weight(b)) /\ ~WeightLess(Weight(b), Weight(a))

\* the best rank of a title of a Stat
BestRank(e) == SetMin({e.ranks[i] : i \in 1..Len(e.ranks)})

InOrder(a, b) ==
    /\ ~WeightLess(Weight(a), Weight(b))
    /\ SameWeight(a, b) => BestRank(a) <= BestRank(b)
    /\ (SameWeight(a, b) /\ BestRank(a) = BestRank(b)) => a.count >= b.count

C13_SortOrder ==
    Counted =>
        /\ \A g \in 1..Len(stats.stats) :
              \A i \in 1..Len(stats.stats[g].titles), j \in 1..Len(stats.stats[g].titles) :
                  i < j => InOrder(stats.stats[g].titles[i], stats.stats[g].titles[j])
        /\ \A g \in 1..Len(stats.stats), h \in 1..Len(stats.stats) :
              g < h => stats.stats[g].count >= stats.stats[h].count

\* two Stats of different counts, and in one of them the title of source B
\* ahead of the title of source A, processed before it, by its count alone
C13_Witness ==
    /\ Counted
    /\ \E g \in 1..Len(stats.stats), h \in 1..Len(stats.stats) :
          stats.stats[g].count > stats.stats[h].count
    /\ \E g \in 1..Len(stats.stats) :
          \E i \in 1..Len(stats.stats[g].titles), j \in 1..Len(stats.stats[g].titles) :
              /\ i < j
              /\ stats.stats[g].titles[i].source_name = SourceName("B")
              /\ stats.stats[g].titles[j].source_name = SourceName("A")
              /\ SameWeight(stats.stats[g].titles[i], stats.stats[g].titles[j])
              /\ BestRank(stats.stats[g].titles[i]) = BestRank(stats.stats[g].titles[j])
              /\ stats.stats[g].titles[i].count > stats.stats[g].titles[j].count

(***************************************************************************)
(* C14: a title whose ledger entry has no ranks stands in its Stat as if   *)
(* its best rank were 999: after every title of equal weight that has a    *)
(* rank of 998 or better.                                                  *)
(***************************************************************************)
\* the ranks the call was given for the title of source s
GivenRanks(s, t) == ValueAt(ValueAt(call.results, s), t).ranks

\* the title of source s comes without ranks and the ledger holds none
\* for it
Unranked(s, t) ==
    /\ t \in TitlesGiven(s)
    /\ GivenRanks(s, t) = <<>>
    /\ Known(call.title_info, s, t) =>
           ValueAt(ValueAt(call.title_info, s), t).ranks = <<>>

\* the title of source s has a ledger entry and neither it nor the input
\* holds a rank
LedgerUnranked(s, t) == Unranked(s, t) /\ Known(call.title_info, s, t)

\* the title of a Stat at position p = <<stat, index>>
TitleAt(p) == stats.stats[p[1]].titles[p[2]]

C14_MissingRanksLast ==
    Counted =>
        \A s \in Sources, o \in Sources : \A t \in MatchTitles, u \in MatchTitles :
            \A p \in Placements(s, t), q \in Placements(o, u) :
                (/\ LedgerUnranked(s, t)
                 /\ ~Unranked(o, u)
                 /\ p[1] = q[1]
                 /\ SameWeight(TitleAt(p), TitleAt(q))
                 /\ BestRank(TitleAt(q)) <= 998) => q[2] < p[2]

(***************************************************************************)
(* C15: a matched title without ranks is still placed in its Stat, and the *)
(* weight it is ordered by is 0.                                           *)
(***************************************************************************)
\* the title matches the configured words
Matched(t) ==
    \/ ConfiguredGroups = <<>>
    \/ /\ ~HitByFilter(t)
       /\ \E i \in 1..Len(ConfiguredGroups) : Satisfies(ConfiguredGroups[i], t)

C15_UnrankedWeighsNothing ==
    Counted =>
        \A s \in Sources : \A t \in TitlesToProcess(s) :
            (Unranked(s, t) /\ Matched(t)) =>
                /\ Placements(s, t) # {}
                /\ \A p \in Placements(s, t) : Weight(TitleAt(p)).num = 0

(***************************************************************************)
(* C16: with the ranks (not empty), the rank threshold and the configured  *)
(* weights (none negative) fixed, frequency_weight is min(count, 10) * 10: *)
(* one more in count raises it when count < 10 and leaves it as it is from *)
(* 10 on, and never lowers the weight calculate_news_weight returns.       *)
(***************************************************************************)
\* the call weighs a title that has ranks
Ranked == weighed # NoWeight /\ weighed.title_data.ranks # <<>>

CountRaised ==
    /\ Ranked
    /\ weighed'.title_data = [weighed.title_data EXCEPT !.count = @ + 1]
    /\ weighed'.rank_threshold = weighed.rank_threshold
    /\ weighed'.weight_config = weighed.weight_config

C16_WeightMonotone ==
    [][CountRaised =>
          /\ weighed.title_data.count < 10 =>
                 /\ weighed.frequency_weight = weighed.title_data.count * 10
                 /\ weighed'.frequency_weight > weighed.frequency_weight
          /\ weighed.title_data.count >= 10 =>
                 /\ weighed.frequency_weight = 100
                 /\ weighed'.frequency_weight = weighed.frequency_weight
          /\ ~WeightLess(weighed'.total_weight, weighed.total_weight)]_vars

\* a title with ranks weighed at a count past 10, with a frequency weight
\* configured
C16_Witness ==
    /\ Ranked
    /\ weighed.title_data.count = 11
    /\ weighed.weight_config.FREQUENCY_WEIGHT > 0
    /\ weighed.frequency_weight = 100

(***************************************************************************)
(* C12: in daily and current mode, a title of the novelty delta that       *)
(* matches no configured word group, or holds a filter word, is in no Stat *)
(* and is not listed in the new titles section of the report data either:  *)
(* the section lists the titles of the delta that match, and only those.   *)
(***************************************************************************)
\* prepare_report_data has returned
Reported == report # NoReport

\* the titles of the novelty delta of source s
NewTitlesGiven(s) ==
    IF HasKey(call.new_titles, s)
    THEN {ValueAt(call.new_titles, s)[i].key : i \in 1..Len(ValueAt(call.new_titles, s))}
    ELSE {}

\* the new titles section lists the title of source s
Listed(s, t) ==
    \E i \in 1..Len(report.new_titles) :
        /\ report.new_titles[i].source_id = s
        /\ \E j \in 1..Len(report.new_titles[i].titles) :
               report.new_titles[i].titles[j].title = t

\* the title is in a Stat of the report data
InStats(s, t) ==
    \E g \in 1..Len(report.stats) : \E j \in 1..Len(report.stats[g].titles) :
        /\ report.stats[g].titles[j].title = t
        /\ report.stats[g].titles[j].source_name = SourceName(s)

C12_UnmatchedNotListed ==
    (Reported /\ call.mode \in {"daily", "current"}) =>
        \A s \in Sources : \A t \in NewTitlesGiven(s) :
            /\ ~Matched(t) => (Placements(s, t) = {} /\ ~InStats(s, t) /\ ~Listed(s, t))
            /\ Matched(t) => Listed(s, t)

\* the claim as first stated: such a title is in no Stat but is listed in
\* the new titles section
C12_UnmatchedStillListed ==
    (Reported /\ call.mode \in {"daily", "current"}) =>
        \A s \in Sources : \A t \in NewTitlesGiven(s) :
            ~Matched(t) => (Placements(s, t) = {} /\ ~InStats(s, t) /\ Listed(s, t))

\* a report of daily mode with two new titles: one that a filter word hits,
\* in no Stat and not listed, and one that matches, in a Stat and listed
C12_Witness ==
    /\ Reported
    /\ call.mode = "daily"
    /\ \E s \in Sources, o \in Sources :
          \E t \in NewTitlesGiven(s), u \in NewTitlesGiven(o) :
              /\ HitByFilter(t) /\ ~Matched(t)
              /\ ~InStats(s, t) /\ ~Listed(s, t)
              /\ Matched(u) /\ InStats(o, u) /\ Listed(o, u)

(***************************************************************************)
(* What the properties read off a finished run: the titles a pipeline      *)
(* placed in its stats, and the titles the frequency words of the day      *)
(* select.                                                                 *)
(***************************************************************************)
\* the observation maps of the files of dir, for the current platforms
SnapshotsOf(dir) ==
    [i \in 1..Len(dir) |-> FileTitles(dir[i], PlatformFilter(platforms))]

\* the directory as detect_latest_new_titles of _execute_mode_strategy found
\* it: the second file of the run is yet to come unless it has the name of
\* the first
FilesBefore ==
    IF title_files[1] = title_files[2] THEN files
    ELSE SubSeq(files, 1, Len(files) - 1)

\* the source with the display name
SourceNamed(name) == CHOOSE s \in Sources : PlatformName(s) = name

\* the places of the titles in the stats of a pipeline
StatPlaces(pipeline) ==
    UNION {{<<i, j>> : j \in 1..Len(pipeline.stats[i].titles)} :
           i \in 1..Len(pipeline.stats)}

EntryAt(pipeline, p) == pipeline.stats[p[1]].titles[p[2]]

\* the (source, title) of the title at place p
PairAt(pipeline, p) ==
    <<SourceNamed(EntryAt(pipeline, p).source_name), EntryAt(pipeline, p).title>>

\* the title holds a word of the frequency words file, or the file is empty
Selected(t) ==
    \/ FrequencyWords(feed) = <<>>
    \/ \E i \in 1..Len(FrequencyWords(feed)) :
          FrequencyWords(feed)[i] # "" /\ InTitle(FrequencyWords(feed)[i], t)

\* the pipeline considered the pairs of entries and no other: it counts
\* them all, and its stats hold once each of them that is selected
ConsidersExactly(pipeline, entries) ==
    /\ pipeline.total_titles = Cardinality(entries)
    /\ \A p \in StatPlaces(pipeline) : PairAt(pipeline, p) \in entries
    /\ \A q \in entries :
          Cardinality({p \in StatPlaces(pipeline) : PairAt(pipeline, p) = q})
              = IF Selected(q[2]) THEN 1 ELSE 0

\* the titles flagged new are those that the last of snaps holds for their
\* source and no earlier one does
FlagsDelta(pipeline, snaps) ==
    \A p \in StatPlaces(pipeline) :
        EntryAt(pipeline, p).is_new
            <=> PairAt(pipeline, p)[2] \in NewIn(snaps, PairAt(pipeline, p)[1])

(***************************************************************************)
(* C17: in daily mode count_word_frequency considers every entry of its    *)
(* input, which for the summary report is the whole ledger of the day and  *)
(* for the report of the run is everything the run crawled; a title in the *)
(* stats is flagged is_new if and only if it is in the novelty delta for   *)
(* its source; when the day has exactly one snapshot no title is flagged   *)
(* new and the novelty section is empty.                                   *)
(***************************************************************************)
C17_DailyWholeLedger ==
    RunDone /\ report_mode = "daily" =>
        /\ summary # NoPipeline =>
              /\ ConsidersExactly(summary, Pairs(Snapshots))
              /\ FlagsDelta(summary, Snapshots)
        /\ ConsidersExactly(realtime, Pairs(<<crawled.results>>))
        /\ FlagsDelta(realtime, SnapshotsOf(FilesBefore))
        /\ Len(files) = 1 =>
              /\ \A p \in StatPlaces(summary) : ~EntryAt(summary, p).is_new
              /\ \A p \in StatPlaces(realtime) : ~EntryAt(realtime, p).is_new
              /\ summary # NoPipeline => summary.report.new_titles = <<>>
              /\ realtime.report.new_titles = <<>>

\* the summary of a daily run holds a title that the latest snapshot lacks,
\* not flagged, and a title of the delta, flagged
C17_Witness ==
    /\ RunDone
    /\ report_mode = "daily"
    /\ \E p, q \in StatPlaces(summary) :
          /\ EntryAt(summary, p).is_new
          /\ ~EntryAt(summary, q).is_new
          /\ ~Appears(Snapshots[Len(files)], PairAt(summary, q)[1],
                      PairAt(summary, q)[2])
    /\ summary.report.new_titles # <<>>

(***************************************************************************)
(* C18: in incremental mode, when the run produced the first snapshot of   *)
(* the day count_word_frequency considers the entire input and flags every *)
(* title in the stats as new; otherwise it considers only the titles of    *)
(* the novelty delta (nothing when the delta is empty) and flags every one *)
(* of them as new.                                                         *)
(***************************************************************************)
\* the first file of the day is one that the run wrote
ProducedFirstSnapshot == files[1].stem = title_files[1]

\* the (source, title) that the last of snaps holds and no earlier one does
DeltaPairs(snaps) ==
    UNION {{<<s, t>> : t \in NewIn(snaps, s)} : s \in Sources}

AllFlaggedNew(pipeline) ==
    \A p \in StatPlaces(pipeline) : EntryAt(pipeline, p).is_new

C18_IncrementalFirstOrDelta ==
    RunDone /\ report_mode = "incremental" =>
        /\ AllFlaggedNew(realtime)
        /\ IF ProducedFirstSnapshot
           THEN ConsidersExactly(realtime, Pairs(<<crawled.results>>))
           ELSE ConsidersExactly(realtime, DeltaPairs(SnapshotsOf(FilesBefore)))

(***************************************************************************)
(* C19: in current mode count_word_frequency considers exactly the ledger  *)
(* entries whose last_time is the identifier of the most recently written  *)
(* snapshot, whatever the snapshots of the day are, also when the latest   *)
(* snapshot holds no title of any allowed source.                          *)
(***************************************************************************)
\* the (source, title) of the ledger entries last seen in the latest file
LatestEntries ==
    {q \in Pairs(Snapshots) :
        loaded.title_info[q[1]][q[2]].last_time = files[Len(files)].stem}

C19_CurrentLatestOnly ==
    RunDone /\ report_mode = "current" /\ realtime # NoPipeline =>
        /\ ConsidersExactly(realtime, LatestEntries)
        /\ ConsidersExactly(summary, LatestEntries)

(***************************************************************************)
(* C20: in current mode every title placed in a Stat carries the count,    *)
(* ranks, first_time and last_time that the ledger accumulated over all    *)
(* the snapshots of the day, not those of the latest snapshot alone.       *)
(***************************************************************************)
\* the ledger entry of the title at place p
LedgerEntryAt(pipeline, p) ==
    loaded.title_info[PairAt(pipeline, p)[1]][PairAt(pipeline, p)[2]]

\* the title at place p tells what the ledger holds
CarriesLedger(pipeline, p) ==
    /\ HasEntry(loaded.title_info, PairAt(pipeline, p)[1], PairAt(pipeline, p)[2])
    /\ EntryAt(pipeline, p).count = LedgerEntryAt(pipeline, p).count
    /\ EntryAt(pipeline, p).count
           = Cardinality(SeenIn(Snapshots, Len(files), PairAt(pipeline, p)[1],
                                PairAt(pipeline, p)[2]))
    /\ EntryAt(pipeline, p).ranks = LedgerEntryAt(pipeline, p).ranks
    /\ EntryAt(pipeline, p).first_time
           = TimeInfo(LedgerEntryAt(pipeline, p).first_time)
    /\ EntryAt(pipeline, p).last_time
           = TimeInfo(LedgerEntryAt(pipeline, p).last_time)

C20_CurrentCarriesLedger ==
    RunDone /\ report_mode = "current" /\ realtime # NoPipeline =>
        /\ \A p \in StatPlaces(realtime) : CarriesLedger(realtime, p)
        /\ \A p \in StatPlaces(summary) : CarriesLedger(summary, p)

\* a title of the stats of a current run that the day saw more than once,
\* at ranks and at a time that the latest snapshot does not tell of
C20_Witness ==
    /\ RunDone
    /\ report_mode = "current"
    /\ \E p \in StatPlaces(realtime) :
          /\ EntryAt(realtime, p).count >= 2
          /\ EntryAt(realtime, p).first_time # EntryAt(realtime, p).last_time
          /\ EntryAt(realtime, p).ranks
                 # Snapshots[Len(files)][PairAt(realtime, p)[1]][PairAt(realtime, p)[2]].ranks

JustSaved == pc = "crawled"

\* the titles of results[s] that no other title of the source is written as
WrittenOnce(s) ==
    {t \in DOMAIN crawled.results[s] :
        \A u \in DOMAIN crawled.results[s] :
            clean_title(u) = clean_title(t) => u = t}

\* what save_titles_to_file wrote of the title
Written(s, t) ==
    [ranks |-> <<FirstRank(crawled.results[s][t])>>,
     url |-> crawled.results[s][t].url,
     mobileUrl |-> crawled.results[s][t].mobileUrl,
     summary |-> CleanSummary(crawled.results[s][t].summary)]

\* what parse_file_titles reads in the file just written
ParsedBack == parse_file_titles(files[Len(files)].lines).titles_by_id

C27_RoundTrip ==
    JustSaved =>
        \A s \in DOMAIN crawled.results : \A t \in WrittenOnce(s) :
            /\ HasEntry(ParsedBack, s, clean_title(t))
            /\ ParsedBack[s][clean_title(t)] = Written(s, t)

(***************************************************************************)
(* C28: the ledger builder treats its inputs as immutable: merging a later *)
(* snapshot with process_source_data leaves the observation map of every   *)
(* snapshot merged before as it was passed, with no title added and no     *)
(* field changed.                                                          *)
(***************************************************************************)
C28_InputsUnchanged ==
    \A i \in 1..Len(folded) : held[i] = folded[i].title_data

(***************************************************************************)
(* What the properties read off a call of split_content_into_batches.      *)
(***************************************************************************)
\* the call has returned
Returned == split_pc = "returned"

\* the report has no stats, no novelty and no failed sources
NoContent(report_data) ==
    /\ report_data.stats = <<>>
    /\ report_data.new_titles = <<>>
    /\ report_data.failed_ids = <<>>

\* the channel header and the footer of the call
ChannelHeader ==
    base_header(split.format_type, StatTitles(split.report_data.stats), strftime(clock))
ChannelFooter == base_footer(split.format_type, strftime(clock), split.update_info)

\* the batch holds the no-matching-content notice
HoldsNotice(batch) == \E k \in 1..Len(batch) : batch[k].part = "simple_content"

\* C26: a report without stats, novelty and failed sources gives exactly
\* one batch, the channel header followed by the no-matching-content notice
\* and the footer; a report with any content gives at least one batch and
\* none of them holds the notice.
C26_NoticeOnlyWhenEmpty ==
    Returned =>
        IF NoContent(split.report_data)
        THEN /\ Len(batches) = 1
             /\ TextOf(batches[1])
                  = ChannelHeader \o simple_content(split.mode) \o ChannelFooter
        ELSE /\ Len(batches) >= 1
             /\ \A b \in 1..Len(batches) : ~HoldsNotice(batches[b])

\* a report without content was sent in incremental mode
C26_Witness ==
    /\ Returned
    /\ NoContent(split.report_data)
    /\ split.mode = "incremental"
    /\ Len(batches) = 1
    /\ HoldsNotice(batches[1])

(***************************************************************************)
(* The units of the returned batches.  A batch starts with the strings it  *)
(* was seeded with, which are the channel header and the headers that were *)
(* already written into an earlier batch; what follows are the units, each *)
(* one tested before it was written: a section header, a group or source   *)
(* header with the first title line, a later title line, a failed-source   *)
(* line.  The notice of a report without content is the one unit of its    *)
(* batch.                                                                  *)
(***************************************************************************)
\* piece k of batch b was written into no earlier batch and was tested
Fresh(b, k) ==
    /\ batches[b][k].part \notin {"base_header", "base_footer", "separator",
                                   "source_end"}
    /\ \A c \in 1..(b - 1) : \A m \in 1..Len(batches[c]) :
           ~(/\ batches[c][m].part = batches[b][k].part
             /\ batches[c][m].at = batches[b][k].at)

\* piece k of batch b is the first title line of its group or source
FirstLine(b, k) ==
    /\ batches[b][k].part = "news_line"
    /\ batches[b][k].at[3] = 1

\* a unit starts at piece k of batch b
UnitStart(b, k) == Fresh(b, k) /\ ~FirstLine(b, k)

\* the last piece of the unit that starts at piece k of batch b
UnitEnd(b, k) ==
    IF k < Len(batches[b]) /\ FirstLine(b, k + 1) THEN k + 1 ELSE k

\* the unit at piece k of batch b is the one the batch was started for
FirstUnit(b, k) ==
    /\ UnitStart(b, k)
    /\ \A m \in 1..(k - 1) : ~UnitStart(b, m)

\* the units of the batches, each as the batch and the piece it starts at
UnitStarts ==
    UNION {{<<b, k>> : k \in {m \in 1..Len(batches[b]) : UnitStart(b, m)}} :
              b \in 1..Len(batches)}

\* the byte length that was tested before the unit at piece k of batch b
\* was written: the batch then current, the unit and the footer
Tested(b, k) ==
    IF FirstUnit(b, k)
    THEN Bytes(batches[b - 1]) + Bytes(SubSeq(batches[b], k, UnitEnd(b, k)))
    ELSE Bytes(SubSeq(batches[b], 1, UnitEnd(b, k)))
         + Bytes(<<batches[b][Len(batches[b])]>>)

\* C29 as stated: a pending unit is appended to the current batch whenever
\* the byte length of current batch + unit + footer is at most max_bytes,
\* exactly max_bytes included, and a new batch is started only when that
\* length exceeds max_bytes.
C29_AppendedUpToBudget ==
    Returned =>
        \A p \in UnitStarts :
            IF FirstUnit(p[1], p[2])
            THEN p[1] >= 2 => Tested(p[1], p[2]) > split.max_bytes
            ELSE Tested(p[1], p[2]) <= split.max_bytes

\* C29, amended: a pending unit is appended to the current batch exactly
\* when the byte length of current batch + unit + footer is below
\* max_bytes; when that length is max_bytes or more, exactly max_bytes
\* included, the current batch is closed and the unit starts the next one.
C29_AppendedBelowBudget ==
    Returned =>
        \A p \in UnitStarts :
            IF FirstUnit(p[1], p[2])
            THEN p[1] >= 2 => Tested(p[1], p[2]) >= split.max_bytes
            ELSE Tested(p[1], p[2]) < split.max_bytes

\* a title line of a keyword group, not the first, started a batch because
\* with it the batch before would have had exactly max_bytes bytes, and
\* another unit was appended to a batch
C29_Witness ==
    /\ Returned
    /\ \E p \in UnitStarts :
           /\ p[1] >= 2
           /\ FirstUnit(p[1], p[2])
           /\ batches[p[1]][p[2]].part = "news_line"
           /\ batches[p[1]][p[2]].at[1] = "stats"
           /\ Tested(p[1], p[2]) = split.max_bytes
    /\ \E p \in UnitStarts :
           /\ ~FirstUnit(p[1], p[2])
           /\ batches[p[1]][p[2]].part = "news_line"

\* the units that batch b holds
UnitsOf(b) == {k \in 1..Len(batches[b]) : UnitStart(b, k)}

\* batch b without what is written between and after units: the strings it
\* was seeded with, its units and the footer
RECURSIVE WithoutFillers(_)
WithoutFillers(pieces) ==
    IF pieces = <<>> THEN <<>>
    ELSE (IF Head(pieces).part \in {"separator", "source_end"} THEN <<>>
          ELSE <<Head(pieces)>>)
         \o WithoutFillers(Tail(pieces))

\* batch b holds a single unit that alone, with header and footer, exceeds
\* max_bytes
OversizedSingleton(b) ==
    /\ Cardinality(UnitsOf(b)) = 1
    /\ Bytes(WithoutFillers(batches[b])) > split.max_bytes

\* C22: every returned batch has at most max_bytes bytes in UTF-8, except a
\* batch that holds a single unit which alone, with header and footer,
\* exceeds max_bytes.
C22_ByteBound ==
    Returned =>
        \A b \in 1..Len(batches) :
            Bytes(batches[b]) <= split.max_bytes \/ OversizedSingleton(b)

\* the title lines and failed-source lines that batch b holds
TitleLinesOf(b) ==
    {k \in 1..Len(batches[b]) : batches[b][k].part \in {"news_line", "failed_line"}}

\* C30: an oversized unit is emitted as its own batch: every returned batch
\* whose UTF-8 length exceeds max_bytes holds at most one title line or
\* failed-source line, besides headers and footer.
C30_OversizedHoldsOneLine ==
    Returned =>
        \A b \in 1..Len(batches) :
            Bytes(batches[b]) > split.max_bytes => Cardinality(TitleLinesOf(b)) <= 1

\* a batch within max_bytes holds two lines and a later one, which holds
\* the one long title line of the group, exceeds max_bytes
C30_Witness ==
    /\ Returned
    /\ \E b, c \in 1..Len(batches) :
           /\ b < c
           /\ Bytes(batches[b]) <= split.max_bytes
           /\ Cardinality(TitleLinesOf(b)) >= 2
           /\ Bytes(batches[c]) > split.max_bytes
           /\ Cardinality(TitleLinesOf(c)) = 1

\* piece k of batch b is the header of a keyword group or of a source of
\* new titles, written for the first time
FreshHeader(b, k) ==
    /\ Fresh(b, k)
    /\ batches[b][k].part \in {"word_header", "source_header"}

\* the titles of the group or source whose header or line a piece is
TitlesAt(piece) == split.report_data[piece.at[1]][piece.at[2]].titles

\* piece k of batch b is the header of the group or source of piece m
HeaderOfLine(b, k, m) ==
    /\ batches[b][k].part \in {"word_header", "source_header"}
    /\ batches[b][k].at = <<batches[b][m].at[1], batches[b][m].at[2]>>

\* C23: no batch boundary falls between the header of a keyword group and
\* the first title line of the group, nor between the header of a source of
\* new titles and its first title line: the first line directly follows
\* its header in the same batch, and when the pair starts a batch, the
\* batch before is closed with the footer and the pair follows only the
\* channel header and the section header.
C23_HeaderWithFirstLine ==
    Returned =>
        \A b \in 1..Len(batches) : \A k \in 1..Len(batches[b]) :
            /\ FirstLine(b, k) => k > 1 /\ HeaderOfLine(b, k - 1, k)
            /\ FreshHeader(b, k) /\ TitlesAt(batches[b][k]) # <<>> =>
                   /\ k < Len(batches[b])
                   /\ FirstLine(b, k + 1)
                   /\ HeaderOfLine(b, k, k + 1)
            /\ FreshHeader(b, k) /\ FirstUnit(b, k) /\ b >= 2 =>
                   /\ batches[b - 1][Len(batches[b - 1])].part = "base_footer"
                   /\ \A m \in 1..(k - 1) :
                          batches[b][m].part
                              \in {"base_header", "stats_header", "new_header"}

\* the header of the second keyword group and the header of a source of new
\* titles each start a batch with their first title line, after batches
\* that hold other lines
C23_Witness ==
    /\ Returned
    /\ \E b \in 2..Len(batches) : \E k \in 1..Len(batches[b]) :
           /\ FreshHeader(b, k) /\ FirstUnit(b, k)
           /\ batches[b][k].at = <<"stats", 2>>
           /\ TitleLinesOf(b - 1) # {}
    /\ \E b \in 2..Len(batches) : \E k \in 1..Len(batches[b]) :
           /\ FreshHeader(b, k) /\ FirstUnit(b, k)
           /\ batches[b][k].part = "source_header"
           /\ TitleLinesOf(b - 1) # {}

\* the title lines and failed-source lines of a batch, in its order
RECURSIVE LinesHeld(_)
LinesHeld(pieces) ==
    IF pieces = <<>> THEN <<>>
    ELSE (IF Head(pieces).part \in {"news_line", "failed_line"}
          THEN <<Head(pieces)>> ELSE <<>>)
         \o LinesHeld(Tail(pieces))

\* the lines of the batches from the b-th on, reading the batches in order
RECURSIVE LinesFrom(_)
LinesFrom(b) ==
    IF b > Len(batches) THEN <<>> ELSE LinesHeld(batches[b]) \o LinesFrom(b + 1)

\* what the call packs
Packed ==
    Packing(split.report_data, split.format_type, split.update_info,
            split.max_bytes, strftime(clock))

\* the title lines of the keyword groups from line j of group i on, those
\* of the sources of new titles, and the failed-source lines, whole, in the
\* order of the report
RECURSIVE StatLinesFrom(_, _)
StatLinesFrom(i, j) ==
    IF i > Len(split.report_data.stats) THEN <<>>
    ELSE IF j > Len(split.report_data.stats[i].titles) THEN StatLinesFrom(i + 1, 1)
    ELSE NewsLine(Packed, i, j) \o StatLinesFrom(i, j + 1)

RECURSIVE NewLinesFrom(_, _)
NewLinesFrom(i, j) ==
    IF i > Len(split.report_data.new_titles) THEN <<>>
    ELSE IF j > Len(split.report_data.new_titles[i].titles) THEN NewLinesFrom(i + 1, 1)
    ELSE NewNewsLine(Packed, i, j) \o NewLinesFrom(i, j + 1)

RECURSIVE FailedLinesFrom(_)
FailedLinesFrom(i) ==
    IF i > Len(split.report_data.failed_ids) THEN <<>>
    ELSE FailedLine(Packed, i) \o FailedLinesFrom(i + 1)

\* C24: nothing is dropped or duplicated, however small max_bytes is: each
\* title line of each keyword group, each title line of each source of new
\* titles and each failed-source line is in exactly one returned batch,
\* whole, and reading the batches in order gives these lines in the order
\* of the report.
C24_EveryLineOnce ==
    Returned =>
        LinesFrom(1) = StatLinesFrom(1, 1) \o NewLinesFrom(1, 1) \o FailedLinesFrom(1)

\* a report with keyword groups, new titles and failed sources was packed
\* with a max_bytes below the size of the footer alone, one line a batch
C24_Witness ==
    /\ Returned
    /\ split.report_data.stats # <<>>
    /\ split.report_data.new_titles # <<>>
    /\ split.report_data.failed_ids # <<>>
    /\ split.max_bytes < Bytes(Packed.base_footer)
    /\ Len(LinesFrom(1)) >= 5
    /\ \A b \in 1..Len(batches) : Len(LinesHeld(batches[b])) <= 1

\* C25: whenever a returned batch has more than max_bytes bytes in UTF-8 the
\* call surfaces a warning: an oversized batch is never produced silently.
C25_OversizedIsWarned ==
    Returned =>
        ((\E b \in 1..Len(batches) : Bytes(batches[b]) > split.max_bytes)
            => printed # <<>>)

\* the header of the group or source of title line k of batch b is written
\* in batch b before the line
HeaderBefore(b, k) == \E m \in 1..(k - 1) : HeaderOfLine(b, m, k)

\* batch b was opened for a title line of a group or source whose earlier
\* lines are in earlier batches
OpenedInTheMiddle(b) ==
    \E k \in 1..Len(batches[b]) :
        /\ FirstUnit(b, k)
        /\ batches[b][k].part = "news_line"
        /\ batches[b][k].at[3] > 1

\* C31: every returned batch starts with the channel header and ends with
\* the footer, and every title line of a batch is preceded, in the same
\* batch, by the header of its own keyword group or of its own source of new
\* titles; a batch opened in the middle of a group or source repeats that
\* header.
C31_HeadersRepeated ==
    Returned =>
        \A b \in 1..Len(batches) :
            /\ StartsWith(TextOf(batches[b]), ChannelHeader)
            /\ EndsWith(TextOf(batches[b]), ChannelFooter)
            /\ \A k \in 1..Len(batches[b]) :
                   batches[b][k].part = "news_line" => HeaderBefore(b, k)

\* on a channel with a header, a batch was opened in the middle of a keyword
\* group and another in the middle of a source of new titles
C31_Witness ==
    /\ Returned
    /\ ChannelHeader # ""
    /\ \E b \in 2..Len(batches) :
           /\ OpenedInTheMiddle(b)
           /\ \E k \in 1..Len(batches[b]) : batches[b][k].part = "word_header"
    /\ \E b \in 2..Len(batches) :
           /\ OpenedInTheMiddle(b)
           /\ \E k \in 1..Len(batches[b]) : batches[b][k].part = "source_header"

(***************************************************************************)
(* The ledger and the novelty delta of one directory under one allow-list. *)
(***************************************************************************)
\* the values current_platform_ids can have: None, or a list of source ids
AllowLists == {NoPlatformFilter} \cup {PlatformFilter(ids) : ids \in SUBSET Sources}

\* the (source, title) pairs of a dict of dicts
PairsOf(by_id) == UNION {{<<s, t>> : t \in DOMAIN by_id[s]} : s \in DOMAIN by_id}

\* the identifier of the latest snapshot file
LatestStem == files[Len(files)].stem

\* the pair has a ledger entry that was first seen in the latest snapshot
FirstSeenLatest(title_info, q) ==
    /\ q \in PairsOf(title_info)
    /\ title_info[q[1]][q[2]].first_time = LatestStem

\* the pair has a ledger entry that was seen once, in the latest snapshot
SeenOnceLatest(title_info, q) ==
    /\ q \in PairsOf(title_info)
    /\ title_info[q[1]][q[2]].count = 1
    /\ title_info[q[1]][q[2]].last_time = LatestStem

\* C32: the ledger and the novelty detector agree: for every directory of
\* at least two snapshot files and every allow-list, a (source, title) pair
\* is in the delta of detect_latest_new_titles if and only if its ledger
\* entry built by read_all_today_titles has first_time equal to the
\* identifier of the latest file, which is the same as count = 1 and
\* last_time equal to that identifier.
C32_LedgerAgreesWithDelta ==
    Len(files) >= 2 =>
        \A ids \in AllowLists :
            LET delta == detect_latest_new_titles(files, ids)
                title_info == read_all_today_titles(files, ids).title_info
            IN  \A q \in PairsOf(delta) \cup PairsOf(title_info) :
                    /\ q \in PairsOf(delta) <=> FirstSeenLatest(title_info, q)
                    /\ FirstSeenLatest(title_info, q) <=> SeenOnceLatest(title_info, q)

\* the latest of the snapshots of the day holds a title in the delta and a
\* title counted twice that is not, and under an allow-list that leaves out
\* a source of the ledger the delta is not empty either
C32_Witness ==
    /\ Len(files) >= 2
    /\ \E ids \in AllowLists :
           LET delta == detect_latest_new_titles(files, ids)
               title_info == read_all_today_titles(files, ids).title_info
               latest == FileTitles(files[Len(files)], ids)
           IN  /\ PairsOf(delta) # {}
               /\ \E q \in PairsOf(latest) \ PairsOf(delta) :
                      title_info[q[1]][q[2]].count >= 2
    /\ \E ids \in AllowLists :
           /\ ~ids.is_none
           /\ PairsOf(detect_latest_new_titles(files, ids)) # {}
           /\ PairsOf(read_all_today_titles(files, ids).title_info)
                  # PairsOf(read_all_today_titles(files, NoPlatformFilter).title_info)

\* the ledger count of a pair, 0 when the ledger has no entry for it
LedgerCount(title_info, q) ==
    IF q \in PairsOf(title_info) THEN title_info[q[1]][q[2]].count ELSE 0

\* the ledger of a directory, of every source
LedgerOf(dir) == read_all_today_titles(dir, NoPlatformFilter).title_info

\* the directory without the file _crawl_data of the running run wrote: the
\* snapshots of earlier runs
EarlierRuns == SubSeq(files, 1, Len(files) - 1)

\* C33: one run of NewsAnalyzer.run persists exactly one snapshot file for
\* the day, whatever the minute is at each of its steps: when the run ends,
\* its two saves have written the same file, no ledger count is more than 1
\* above what it is for the snapshots of earlier runs, and the novelty delta
\* of the run holds the titles of its snapshot that no snapshot of an
\* earlier run holds.
C33_OneSnapshotPerRun ==
    [][ExecuteModeStrategy =>
          /\ title_files'[1] = title_files'[2]
          /\ Len(files') = Len(EarlierRuns) + 1
          /\ \A q \in PairsOf(LedgerOf(files')) :
                 LedgerCount(LedgerOf(files'), q) <= LedgerCount(LedgerOf(EarlierRuns), q) + 1
          /\ \A s \in platforms :
                 (IF s \in DOMAIN new_titles' THEN DOMAIN new_titles'[s] ELSE {})
                     = NewIn(SnapshotsOf(files), s)]_vars

\* the call of process_source_data a step made
LastCall == folded'[Len(folded')]

\* C34: merging the block of one source with process_source_data leaves
\* unchanged every ledger entry of every other source and every entry of
\* the same source whose title is absent from the block: count, ranks,
\* first_time, last_time, url, mobileUrl and summary are after the call
\* what they were before it.
C34_OtherEntriesUnchanged ==
    [][ProcessSourceData =>
          \A q \in PairsOf(accum.title_info) :
              (q[1] # LastCall.source_id \/ q[2] \notin DOMAIN LastCall.title_data)
                  => /\ q \in PairsOf(accum'.title_info)
                     /\ accum'.title_info[q[1]][q[2]] = accum.title_info[q[1]][q[2]]]_vars

\* a block of source A without title X was merged after a block that holds
\* it, and the ledger has the entry of X as the first call made it, beside
\* the one of the later block
C34_Witness ==
    /\ Len(folded) = 2
    /\ folded[1].source_id = "A" /\ folded[2].source_id = "A"
    /\ "X" \in DOMAIN folded[1].title_data
    /\ "X" \notin DOMAIN folded[2].title_data
    /\ folded[2].time_info > folded[1].time_info
    /\ accum.title_info["A"]["X"]
           = NewEntry(folded[1].title_data["X"], folded[1].time_info)
    /\ DOMAIN accum.title_info["A"] = {"X", "Y"}

(***************************************************************************)
(* What the properties read off a call of send_to_notifications.           *)
(***************************************************************************)
\* the push window is enabled and once_per_day is set
OncePerDay == push_config.ENABLED /\ push_config.ONCE_PER_DAY

\* a channel reported success to the call
AnySuccess(push) == \E c \in DOMAIN push.results : push.results[c]

\* the time is outside the configured time range
OutsideTimeRange(now) == ~is_in_time_range(now, push_config.START, push_config.END)

\* C35: with the push window enabled and once_per_day set, a push record
\* for today is written only after at least one channel reported success;
\* once it is written, every later call of send_to_notifications on the
\* same day returns without sending to any channel; outside the configured
\* time range no channel is sent to and no record is written.
C35_OncePerDay ==
    [][SendToNotifications /\ OncePerDay =>
          /\ pushed'.recorded \/ today'.day \in push_records' \ push_records
                 => AnySuccess(pushed')
          /\ today'.day \in push_records
                 => /\ pushed'.sent = <<>>
                    /\ pushed'.outcome = "returned"
                    /\ ~pushed'.recorded
          /\ OutsideTimeRange(today')
                 => /\ pushed'.sent = <<>>
                    /\ ~pushed'.recorded
                    /\ push_records' \subseteq push_records]_vars

\* once_per_day is set and the record of the day is written: the call, made
\* in the time range with channels configured, sent to none of them
C35_Witness ==
    /\ OncePerDay
    /\ push_config.channels # {}
    /\ today.day \in push_records
    /\ ~OutsideTimeRange(today)
    /\ today.minute = 2
    /\ pushed.outcome = "returned"
    /\ pushed.sent = <<>>

\* C36: for every configuration, push window enabled with once_per_day set
\* included, send_to_notifications finishes by returning its result map,
\* one result for each channel it sent to, and never raises after the
\* channels have been sent to.
C36_ReturnsResults ==
    pushed # NoPush =>
        /\ pushed.outcome = "returned"
        /\ DOMAIN pushed.results = {pushed.sent[i] : i \in 1..Len(pushed.sent)}

\* a sender has posted the batches of the report
Sent == split_pc = "sent"

\* C37: the payload transmitted to a channel stays within the channel's
\* max_bytes: for every report of more than one batch, the text a sender
\* posts for a batch, with its '[Batch i/n]' identifier, has at most
\* max_bytes bytes in UTF-8 whenever the batch itself has.
C37_PayloadWithinBound ==
    Sent /\ Len(batches) > 1 =>
        \A k \in 1..Len(posted) :
            Bytes(batches[posted[k].batch]) <= split.max_bytes
                => Utf8Len(posted[k].text) <= split.max_bytes

(***************************************************************************)
(* What the properties read off a call of fetch_data and crawl_websites.   *)
(***************************************************************************)
\* the requests the call of fetch_data has made
Requests == Len(fetching.answers)

FetchReturned == fetching.pc = "returned"

\* the requests of the call that succeeded
Successes == {k \in 1..Requests : Succeeds(fetching.answers[k])}

\* C38: fetch_data always terminates after at most max_retries + 1
\* requests: it returns the response text at the first request that
\* succeeds with status 'success' or 'cache' and makes no further request,
\* and it returns None as data once max_retries + 1 requests have failed.
C38_FetchTerminates ==
    /\ [](Requests <= fetching.max_retries + 1)
    /\ [](FetchReturned =>
             IF Successes # {}
             THEN /\ Successes = {Requests}
                  /\ fetching.data = DataText(fetching.answers[Requests])
             ELSE /\ Requests = fetching.max_retries + 1
                  /\ fetching.data = None)
    /\ [](fetching.pc = "requesting" => Requests <= fetching.max_retries)
    /\ (fetching.pc = "requesting" ~> FetchReturned)

\* a call returned the text of its third request after two failures
C38_Witness ==
    /\ FetchReturned
    /\ fetching.max_retries = 2
    /\ Requests = 3
    /\ ~Succeeds(fetching.answers[1]) /\ ~Succeeds(fetching.answers[2])
    /\ fetching.data = DataText(fetching.answers[3])

\* the ids of a list
IdsOf(ids_list) == {ids_list[k] : k \in 1..Len(ids_list)}

\* C39: after crawl_websites returns, every requested source id is in
\* exactly one of results and failed_ids: an id listed in failed_ids never
\* has an entry in results, also when the response was fetched but
\* processing one of its items raised.
C39_ResultsOrFailed ==
    crawling.pc = "returned" =>
        \A id \in IdsOf(crawling.ids_list) :
            (id \in DOMAIN crawling.results) # (id \in IdsOf(crawling.failed_ids))

====
